---- MODULE Spec2Model ----
(***************************************************************************)
(* Model of the sle_prjmgr_tools command line entry point (cli.py): the    *)
(* search for a configuration file, the import of the plugins it names,    *)
(* the argparse registry the plugins fill, the parse of argv and the call  *)
(* of the selected handler; and of the ibs_to_jira plugin with the Jira    *)
(* helpers of utils/jira.py it is built on.                                *)
(***************************************************************************)
EXTENDS Integers, Sequences, FiniteSets, TLC

VARIABLES
    env,            \* os.environ, restricted to the two variables the locations name
    fs,             \* the file system: path -> content of the regular file there
    argv,           \* sys.argv[1:]
    pc,             \* position of main()
    loc_idx,        \* index of the for loop over CONFIG_LOCATIONS
    real_location,  \* the path the last iteration tested with os.path.isfile
    tested,         \* the paths tested so far, one per iteration
    module_list,    \* main()'s module_list (a Python list or None)
    config_found,   \* main()'s config_found
    log,            \* the logger.debug records written so far
    mod_idx,        \* index of the for loop over module_list
    registry,       \* SUBPARSERS: sub-command keyword -> the sub-parser a plugin built
    built,          \* the modules whose build_parser was called, in call order
    args,           \* the argparse namespace parse_args returned
    called,         \* the handlers args.func(args) invoked, in call order
    stdout,         \* what was printed on standard output
    stderr,         \* what was printed on standard error
    raised,         \* the exception the handler raised, or NoException
    exception,      \* the exception that left main() uncaught, or NoException
    exit_code,      \* the exit status of the process, or NoExit while it runs
    \* ibs_to_jira and utils/jira.py
    tracker,        \* the Jira server: ticket key -> the issue stored under it
    comments,       \* the add_comment calls the server accepted, in call order
    transitioned,   \* the transition_issue calls the server accepted, in call order
    jira_log,       \* the records written with logger.error and logger.warning
    call,           \* the JiraUtils method called last, with arguments and outcome
    ibs_pc,         \* position of ibs_to_jira.main()
    is_milestone,   \* main()'s is_milestone (the --milestone flag)
    dict_with_srs,  \* main()'s dict_with_srs
    dict_with_jscs, \* main()'s dict_with_jscs
    milestone_name, \* main()'s milestone_name
    jira_work,      \* main_jira_work()'s JiraWork object, or PyNone before it exists
    issues_by_category, \* main_jira_work()'s issues_by_category
    comment_idx,    \* index of the comment loop over the classified issues
    ibs_exception,  \* the exception that left ibs_to_jira.main(), or NoException
    \* release_to, release_to_test and utils/osc.py
    osc_pc,         \* position of the release
    release_target, \* release_to.main()'s target
    package_list,   \* the packages of the project, as meta_get_packagelist lists them
    released,       \* the release requests osc_do_release posted, in call order
    response,       \* the result nodes of the build result the last poll received
    polls,          \* the osc_is_repo_published calls with their results, in call order
    osc_stdout,     \* the lines release_to_common printed
    \* update_build_status_page
    page_cache,     \* page_cache: the address of a request -> the JSON it was answered with
    pages,          \* the Confluence server: page id -> version number of the page
    puts,           \* the PUT requests of confluence_set_page_content, in call order
    \* sle_build.sle_images
    img_pc,         \* position of sle_images()
    kiwi_template,  \* sle_images()'s kiwi_template
    futures,        \* the binary lists of the lookups submitted to the executor
    pending,        \* the futures as_completed has not yielded yet
    img_result,     \* the result list of the get_sle_images_* call under way
    temp_storage,   \* sle_images()'s temp_storage
    submitted,      \* the binary lists of all lookups submitted so far
    \* packagelist_report.calculcate_package_diff
    old_file,       \* calculcate_package_diff()'s old_file
    new_file,       \* calculcate_package_diff()'s new_file
    report,         \* main()'s report
    \* packagelist_report.get_file_content
    gfc_pc,         \* position of get_file_content()
    remote,         \* the files of 000package-groups: what a download of each yields
    downloaded,     \* the files download_file was called for, in call order
    ret,            \* get_file_content()'s ret
    summary_file,   \* the file write_summary_dict wrote
    gfc_exit        \* the exit code of the process, or NoExit

cli_vars == << env, fs, argv, pc, loc_idx, real_location, tested, module_list,
               config_found, log, mod_idx, registry, built, args, called, stdout,
               stderr, raised, exception, exit_code >>

jira_vars == << tracker, comments, transitioned, jira_log, call >>

ibs_vars == << ibs_pc, is_milestone, dict_with_srs, dict_with_jscs, milestone_name,
               jira_work, issues_by_category, comment_idx, ibs_exception >>

osc_vars == << osc_pc, release_target, package_list, released, response, polls,
               osc_stdout >>

conf_vars == << page_cache, pages, puts >>

img_vars == << img_pc, kiwi_template, futures, pending,
               img_result, temp_storage, submitted >>

diff_vars == << old_file, new_file, report >>

gfc_vars == << gfc_pc, remote, downloaded, ret, summary_file, gfc_exit >>

\* The variables of the programs that are not part of the command line entry
\* point and of ibs_to_jira.
rest_vars == << osc_vars, conf_vars, img_vars, diff_vars, gfc_vars >>

vars == << cli_vars, jira_vars, ibs_vars, rest_vars >>

----------------------------------------------------------------------------
(* Bounds of the model. *)

\* Longest module list a configuration file of the model holds.
MaxModules == 3

----------------------------------------------------------------------------
(* Python values. *)

PyNone == [t |-> "none", v |-> << >>]
PyList(l) == [t |-> "list", v |-> l]

NoException == "none"
NoExit == 0 - 1
NoPath == "<none>"

----------------------------------------------------------------------------
(* Environment and paths. *)

Unset == "<unset>"
XdgHome == "/home/user/.config"
ToolsFile == "/srv/prjmgr/tools.json"

Lit(s) == [kind |-> "lit", text |-> s]
Ref(n) == [kind |-> "var", text |-> n]

\* A location is a sequence of literal pieces and $NAME references.
CONFIG_LOCATIONS ==
    << << Lit("/etc/sle-prjmgr-tools.json") >>,
       << Ref("XDG_CONFIG_HOME"), Lit("/sle-prjmgr-tools.json") >>,
       << Ref("RELEASE_MANAGEMENT_TOOLS_FILE") >> >>

EnvNames == {"XDG_CONFIG_HOME", "RELEASE_MANAGEMENT_TOOLS_FILE"}

\* The location as the string written in the source.
RECURSIVE Text(_)
Text(location) ==
    IF location = << >> THEN ""
    ELSE LET h == Head(location)
         IN (IF h.kind = "var" THEN "$" \o h.text ELSE h.text) \o Text(Tail(location))

\* '"$" in location'
HasDollar(location) == \E i \in 1..Len(location) : location[i].kind = "var"

\* The path of a location with every reference to an unset variable replaced
\* by the empty string.
RECURSIVE ExpandUnsetToEmpty(_, _)
ExpandUnsetToEmpty(location, e) ==
    IF location = << >> THEN ""
    ELSE LET h == Head(location)
             piece == IF h.kind = "var"
                      THEN IF e[h.text] # Unset THEN e[h.text] ELSE ""
                      ELSE h.text
         IN piece \o ExpandUnsetToEmpty(Tail(location), e)

\* os.path.expandvars taken for the expansion of a shell.
ShellExpand(location, e) == ExpandUnsetToEmpty(location, e)

\* os.path.expandvars: a reference to a variable of the environment is replaced
\* by its value, a reference to a variable that is not set is left unchanged.
RECURSIVE expandvars(_, _)
expandvars(location, e) ==
    IF location = << >> THEN ""
    ELSE LET h == Head(location)
             piece == IF h.kind = "var"
                      THEN IF e[h.text] # Unset THEN e[h.text] ELSE "$" \o h.text
                      ELSE h.text
         IN piece \o expandvars(Tail(location), e)

BundledPath == "sle_prjmgr_tools/config/sle-prjmgr-tools.json"

----------------------------------------------------------------------------
(* Configuration files. *)

Absent == [kind |-> "absent", has_modules |-> FALSE, modules |-> << >>]
InvalidJson == [kind |-> "invalid", has_modules |-> FALSE, modules |-> << >>]
NoModulesField == [kind |-> "object", has_modules |-> FALSE, modules |-> << >>]
Modules(l) == [kind |-> "object", has_modules |-> TRUE, modules |-> l]

\* os.path.isfile on the modelled file system.
isfile(path) == path \in DOMAIN fs /\ fs[path].kind # "absent"

\* load_config without the except branch that turns a JSONDecodeError into [].
load_config_unguarded(path) ==
    IF fs[path].has_modules THEN PyList(fs[path].modules) ELSE PyNone

\* load_config: json.load of the file, then json_dict.get("modules"), which is
\* None when the object has no such key; a JSONDecodeError returns [].
load_config(path) ==
    LET content == fs[path]
    IN IF content.kind = "invalid" THEN PyList(<< >>)
       ELSE IF content.has_modules THEN PyList(content.modules)
       ELSE PyNone

\* The logger.debug records of load_config.
load_config_log(path) ==
    IF fs[path].kind = "invalid" THEN << <<"syntax error", path>> >>
    ELSE << <<"loaded", path>> >>

\* traceback.print_exc() in the except branch of load_config.
load_config_stderr(path) ==
    IF fs[path].kind = "invalid" THEN << "traceback JSONDecodeError" >> ELSE << >>

----------------------------------------------------------------------------
(* argparse: options, parsers and namespaces. All values are strings. *)

Opt(flags, dest, action, const, default, required, group) ==
    [flags |-> flags, dest |-> dest, action |-> action, const |-> const,
     default |-> default, required |-> required, group |-> group]

Store(flags, dest, default) == Opt(flags, dest, "store", "None", default, FALSE, "none")
StoreRequired(flags, dest) == Opt(flags, dest, "store", "None", "None", TRUE, "none")
StoreTrue(flags, dest) == Opt(flags, dest, "store_true", "True", "False", FALSE, "none")
StoreConst(flags, dest, const, group) ==
    Opt(flags, dest, "store_const", const, "None", FALSE, group)

Default(dest, value) == [dest |-> dest, value |-> value]

Parser(options, positionals, required_groups, defaults, sub) ==
    [options |-> options, positionals |-> positionals,
     required_groups |-> required_groups, defaults |-> defaults, sub |-> sub]

\* PARSER: the four global options and the sub-parsers action.
PARSER ==
    Parser({ Store({"--osc-config"}, "osc_config", "None"),
             Store({"--osc-instance"}, "osc_instance", "https://api.suse.de"),
             Store({"--jira-instance"}, "jira_instance", "https://jira.suse.com"),
             Store({"--confluence-instance"}, "confluence_instance",
                   "https://confluence.suse.com") },
           << >>, {}, {}, TRUE)

GlobalDests == {"osc_config", "osc_instance", "jira_instance", "confluence_instance"}

\* The sub-parser each plugin's build_parser adds to SUBPARSERS.
version_build_parser ==
    Parser({}, << >>, {}, { Default("func", "version.main_cli") }, FALSE)

release_to_build_parser ==
    Parser({ StoreConst({"--test"}, "release_target", "ReleaseTargets.TEST", "target"),
             StoreConst({"--publish"}, "release_target", "ReleaseTargets.PUBLISH",
                        "target") },
           << "project" >>, {"target"}, {}, FALSE)

release_to_test_build_parser ==
    Parser({}, << "project" >>, {}, {}, FALSE)

sle_build_build_parser ==
    Parser({}, << "version" >>, {}, { Default("func", "sle_build.main_cli") }, FALSE)

ibs_to_jira_build_parser ==
    Parser({ StoreRequired({"--jira-pat", "-j"}, "jira_pat"),
             Store({"--ssl-cert-bundle", "-s"}, "ssl_cert_bundle",
                   "/usr/share/pki/trust/anchors/SUSE_Trust_Root.crt.pem"),
             StoreTrue({"--ssl-cert-check-disable", "-S"}, "ssl_cert_check_disable"),
             Store({"--project", "-p"}, "project", "SUSE:SLE-15-SP5:GA"),
             StoreTrue({"--milestone", "-m"}, "milestone") },
           << >>, {}, { Default("func", "ibs_to_jira.main_cli") }, FALSE)

list_accepted_pkgs_build_parser ==
    Parser({ StoreRequired({"--project", "-p"}, "project"),
             Store({"--days", "-d"}, "time_range", "None") },
           << >>, {}, { Default("func", "list_accepted_pkgs.main_cli") }, FALSE)

\* The modules of the model that have a build_parser.
PluginNames ==
    {"version", "release_to", "release_to_test", "sle_build", "ibs_to_jira",
     "list_accepted_pkgs"}

build_parser(name) ==
    CASE name = "version" -> version_build_parser
      [] name = "release_to" -> release_to_build_parser
      [] name = "release_to_test" -> release_to_test_build_parser
      [] name = "sle_build" -> sle_build_build_parser
      [] name = "ibs_to_jira" -> ibs_to_jira_build_parser
      [] name = "list_accepted_pkgs" -> list_accepted_pkgs_build_parser

\* Every build_parser registers its sub-command under the name of its module.
Keyword(name) == name

\* Names importlib resolves inside the sle_prjmgr_tools package; utils and
\* config are packages of it that define no build_parser.
Importable == PluginNames \cup {"utils", "config"}

----------------------------------------------------------------------------
(* argparse: parse_args. *)

EmptyNamespace == [d \in {} |-> "None"]

SetAttr(ns, dest, value) ==
    [d \in DOMAIN ns \cup {dest} |-> IF d = dest THEN value ELSE ns[d]]

\* setattr(namespace, key, value) for every key of the second namespace.
Merge(ns, over) ==
    [d \in DOMAIN ns \cup DOMAIN over |-> IF d \in DOMAIN over THEN over[d] ELSE ns[d]]

RangeOf(seq) == {seq[i] : i \in 1..Len(seq)}

\* The namespace a parser starts from: the default of every action it declares
\* and the values given to its set_defaults.
InitialNamespace(parser) ==
    LET option_dests == {o.dest : o \in parser.options}
        default_dests == {d.dest : d \in parser.defaults}
    IN [d \in option_dests \cup RangeOf(parser.positionals) \cup default_dests |->
            IF d \in default_dests
            THEN (CHOOSE x \in parser.defaults : x.dest = d).value
            ELSE IF d \in option_dests
            THEN (CHOOSE o \in parser.options : o.dest = d).default
            ELSE "None"]

\* The strings argparse takes for option strings (they start with "-").
OptionStrings ==
    UNION {o.flags : o \in PARSER.options}
    \cup UNION {UNION {o.flags : o \in build_parser(n).options} : n \in PluginNames}
    \cup {"--bogus"}

ParseError == [ok |-> FALSE, ns |-> EmptyNamespace]
Parsed(ns) == [ok |-> TRUE, ns |-> ns]

\* What is left to check when the arguments are used up: required options,
\* required mutually exclusive groups and positionals.
Complete(parser, seen, npos) ==
    /\ \A o \in parser.options : o.required => o \in seen
    /\ \A g \in parser.required_groups : \E o \in seen : o.group = g
    /\ npos = Len(parser.positionals)

\* The defaults of every registered sub-parser set on one shared namespace.
RECURSIVE MergeAll(_, _)
MergeAll(reg, keywords) ==
    IF keywords = {} THEN EmptyNamespace
    ELSE LET k == CHOOSE x \in keywords : TRUE
         IN Merge(MergeAll(reg, keywords \ {k}), InitialNamespace(reg[k]))

SharedNamespace(reg, keyword) ==
    Merge(MergeAll(reg, DOMAIN reg \ {keyword}), InitialNamespace(reg[keyword]))

\* The namespace of the sub-parser selected by keyword, before its arguments
\* are parsed: sub-parsers parse into a namespace of their own.
SubNamespace(reg, keyword) == InitialNamespace(reg[keyword])

\* parse_args of one parser over the remaining arguments. seen are the options
\* met so far, npos the number of positionals filled.
RECURSIVE ParseWith(_, _, _, _, _, _)
ParseWith(parser, tokens, ns, seen, npos, reg) ==
    IF tokens = << >>
    THEN IF Complete(parser, seen, npos) THEN Parsed(ns) ELSE ParseError
    ELSE
      LET h == Head(tokens) IN
      IF h \in OptionStrings
      THEN
        IF ~ \E o \in parser.options : h \in o.flags
        THEN ParseError                               \* unrecognized arguments
        ELSE
          LET o == CHOOSE x \in parser.options : h \in x.flags IN
          IF o.group # "none" /\ \E x \in seen : x.group = o.group /\ x # o
          THEN ParseError                             \* not allowed with argument
          ELSE IF o.action = "store"
          THEN IF Len(tokens) >= 2 /\ tokens[2] \notin OptionStrings
               THEN ParseWith(parser, Tail(Tail(tokens)),
                              SetAttr(ns, o.dest, tokens[2]), seen \cup {o}, npos, reg)
               ELSE ParseError                        \* expected one argument
          ELSE ParseWith(parser, Tail(tokens), SetAttr(ns, o.dest, o.const),
                         seen \cup {o}, npos, reg)
      ELSE IF parser.sub
      THEN
        \* the sub-parsers action: the keyword selects a parser, which takes
        \* all the remaining arguments
        IF h \notin DOMAIN reg
        THEN ParseError                               \* invalid choice
        ELSE
          LET r == ParseWith(reg[h], Tail(tokens), SubNamespace(reg, h), {}, 0, reg)
          IN IF r.ok /\ Complete(parser, seen, npos)
             THEN Parsed(Merge(ns, r.ns))
             ELSE ParseError
      ELSE IF npos < Len(parser.positionals)
      THEN ParseWith(parser, Tail(tokens),
                     SetAttr(ns, parser.positionals[npos + 1], h), seen, npos + 1, reg)
      ELSE ParseError                                 \* unrecognized arguments

\* PARSER.parse_args()
parse_args(tokens, reg) ==
    ParseWith(PARSER, tokens, InitialNamespace(PARSER), {}, 0, reg)

\* The sub-command keyword of an argument vector: the first argument that is
\* neither a global option nor its value.
RECURSIVE Subcommand(_)
Subcommand(tokens) ==
    IF tokens = << >> THEN "none"
    ELSE IF Head(tokens) \in OptionStrings
    THEN IF Len(tokens) >= 2 THEN Subcommand(Tail(Tail(tokens))) ELSE "none"
    ELSE Head(tokens)

----------------------------------------------------------------------------
(* The inputs of a run: environment, files and argument vector. *)

EtcPath == Text(CONFIG_LOCATIONS[1])
XdgPath == XdgHome \o "/sle-prjmgr-tools.json"
LiteralXdgPath == Text(CONFIG_LOCATIONS[2])
LiteralToolsPath == Text(CONFIG_LOCATIONS[3])

Paths == {EtcPath, XdgPath, ToolsFile, LiteralXdgPath, LiteralToolsPath, BundledPath}

\* The module list of the configuration packaged with the distribution.
BundledModules ==
    << "ibs_to_jira", "list_accepted_pkgs", "release_to", "release_to_test",
       "sle_build", "version" >>

ModuleLists ==
    { l \in { << >>,
              << "version" >>,
              << "release_to", "release_to_test" >>,
              << "sle_build", "ibs_to_jira", "version" >>,
              << "version", "no_such_module", "sle_build" >>,
              << "utils", "sle_build" >>,
              << "sle_build", "sle_build" >>,
              << "list_accepted_pkgs", "version", "ibs_to_jira", "release_to" >> } :
        Len(l) <= MaxModules }

Broken == {InvalidJson, NoModulesField}

EtcContents == {Absent} \cup Broken \cup {Modules(l) : l \in ModuleLists}
XdgContents ==
    {Absent} \cup Broken
    \cup {Modules(l) : l \in {m \in ModuleLists : Len(m) \in {0, 2}}}
ToolsContents ==
    {Absent} \cup Broken
    \cup {Modules(l) : l \in {m \in ModuleLists : Len(m) \in {1, 3}}}
LiteralContents == {Absent, Modules(<< "ibs_to_jira" >>)}

ArgvChoices ==
    { << >>,
      << "--osc-instance", "https://api.opensuse.org" >>,
      << "version" >>,
      << "release_to", "--test", "SUSE:SLE-15-SP5:GA" >>,
      << "release_to_test", "SUSE:SLE-15-SP5:GA" >>,
      << "sle_build", "15-SP5" >>,
      << "ibs_to_jira", "-j", "my_pat", "--milestone" >>,
      << "--osc-config", "/home/user/.oscrc", "ibs_to_jira", "-j", "my_pat" >>,
      << "list_accepted_pkgs", "-p", "SUSE:SLE-15-SP4:GA" >>,
      << "ibs_to_jira" >>,
      << "sle_build", "15-SP5", "--milestone" >>,
      << "release_to", "--test", "--publish", "SUSE:SLE-15-SP5:GA" >> }

\* No release is under way.
OscIdle ==
    /\ osc_pc = "idle"
    /\ release_target = ""
    /\ package_list = << >>
    /\ released = << >>
    /\ response = << >>
    /\ polls = << >>
    /\ osc_stdout = << >>

\* No Confluence page was read or written.
ConfIdle ==
    /\ page_cache = << >>
    /\ pages = << >>
    /\ puts = << >>

\* sle_images() was not called.
ImgIdle ==
    /\ img_pc = "idle"
    /\ kiwi_template = ""
    /\ futures = << >>
    /\ pending = {}
    /\ img_result = << >>
    /\ temp_storage = << >>
    /\ submitted = << >>

\* calculcate_package_diff() was not called.
DiffIdle ==
    /\ old_file = << >>
    /\ new_file = << >>
    /\ report = << >>

\* get_file_content() was not called.
GfcIdle ==
    /\ gfc_pc = "idle"
    /\ remote = << >>
    /\ downloaded = << >>
    /\ ret = << >>
    /\ summary_file = << >>
    /\ gfc_exit = NoExit

\* The other programs are not running.
RestIdle == OscIdle /\ ConfIdle /\ ImgIdle /\ DiffIdle /\ GfcIdle

\* No Jira server is contacted before a handler runs.
JiraIdle ==
    /\ tracker = << >>
    /\ comments = << >>
    /\ transitioned = << >>
    /\ jira_log = << >>
    /\ call = PyNone

\* ibs_to_jira.main() before it is entered.
IbsIdle ==
    /\ ibs_pc = "idle"
    /\ is_milestone = FALSE
    /\ dict_with_srs = << >>
    /\ dict_with_jscs = << >>
    /\ milestone_name = ""
    /\ jira_work = PyNone
    /\ issues_by_category = << >>
    /\ comment_idx = 1
    /\ ibs_exception = NoException

\* A file under a path no location can name in this environment is left out:
\* the run never looks at it.
Init ==
    /\ env \in [EnvNames -> {Unset, XdgHome, ToolsFile}]
    /\ env["XDG_CONFIG_HOME"] \in {Unset, XdgHome}
    /\ env["RELEASE_MANAGEMENT_TOOLS_FILE"] \in {Unset, ToolsFile}
    /\ \E etc \in EtcContents,
          xdg \in (IF env["XDG_CONFIG_HOME"] = Unset THEN {Absent} ELSE XdgContents),
          literal_xdg \in
              (IF env["XDG_CONFIG_HOME"] = Unset THEN LiteralContents ELSE {Absent}),
          tools \in
              (IF env["RELEASE_MANAGEMENT_TOOLS_FILE"] = Unset THEN {Absent}
               ELSE ToolsContents),
          literal_tools \in
              (IF env["RELEASE_MANAGEMENT_TOOLS_FILE"] = Unset THEN LiteralContents
               ELSE {Absent}) :
          fs = [p \in Paths |->
                  CASE p = EtcPath -> etc
                    [] p = XdgPath -> xdg
                    [] p = LiteralXdgPath -> literal_xdg
                    [] p = ToolsFile -> tools
                    [] p = LiteralToolsPath -> literal_tools
                    [] p = BundledPath -> Modules(BundledModules)]
    /\ argv \in ArgvChoices
    /\ pc = "resolve"
    /\ loc_idx = 1
    /\ real_location = NoPath
    /\ tested = << >>
    /\ module_list = PyList(<< >>)
    /\ config_found = FALSE
    /\ log = << >>
    /\ mod_idx = 1
    /\ registry = [k \in {} |-> PARSER]
    /\ built = << >>
    /\ args = EmptyNamespace
    /\ called = << >>
    /\ stdout = << >>
    /\ stderr = << >>
    /\ raised = NoException
    /\ exception = NoException
    /\ exit_code = NoExit
    /\ JiraIdle
    /\ IbsIdle
    /\ RestIdle

----------------------------------------------------------------------------
(* main(): the search for the configuration. *)

\* An uncaught exception ends the interpreter with a traceback and status 1.
Crash(name) ==
    /\ pc' = "crashed"
    /\ exception' = name
    /\ exit_code' = 1

\* The path an iteration of the loop over CONFIG_LOCATIONS tests.
RealLocation(location, e) ==
    IF HasDollar(location) THEN expandvars(location, e) ELSE Text(location)

\* config.load_modules(): the same search as a function of environment and
\* files; i is the loop index, list and found are its two local variables.
RECURSIVE load_modules_from(_, _, _)
load_modules_from(i, list, found) ==
    IF i > Len(CONFIG_LOCATIONS)
    THEN IF ~ found THEN load_config(BundledPath) ELSE list
    ELSE LET path == RealLocation(CONFIG_LOCATIONS[i], env)
         IN IF isfile(path)
            THEN load_modules_from(i + 1, load_config(path), TRUE)
            ELSE load_modules_from(i + 1, list, found)

load_modules == load_modules_from(1, PyList(<< >>), FALSE)

\* The fallback taken whether or not a candidate was found.
AlwaysBuiltin(found) == "builtin"

\* The position after the loop over CONFIG_LOCATIONS.
AfterLocations(found) == IF found THEN "import" ELSE "builtin"

\* First-match-wins: a later candidate does not replace an earlier one.
KeepFirstMatch(found, path) ==
    IF found /\ ~ config_found THEN load_config(path) ELSE module_list

\* 'module_list = load_config(real_location)' under 'if os.path.isfile(...)':
\* every candidate that exists replaces what an earlier one gave.
NextModuleList(found, path) ==
    IF found THEN load_config(path) ELSE module_list

\* One iteration of the loop over CONFIG_LOCATIONS.
CheckLocation ==
    /\ pc = "resolve"
    /\ LET location == CONFIG_LOCATIONS[loc_idx]
           path == RealLocation(location, env)
           found == isfile(path)
       IN /\ real_location' = path
          /\ tested' = Append(tested, path)
          /\ module_list' = NextModuleList(found, path)
          /\ config_found' = (found \/ config_found)
          /\ log' = log \o (IF found THEN load_config_log(path)
                            ELSE << <<"skipped", path>> >>)
          /\ stderr' = stderr \o (IF found THEN load_config_stderr(path) ELSE << >>)
          /\ loc_idx' = loc_idx + 1
          /\ pc' = IF loc_idx = Len(CONFIG_LOCATIONS)
                   THEN AfterLocations(found \/ config_found)
                   ELSE "resolve"
    /\ UNCHANGED << env, fs, argv, mod_idx, registry, built, args, called, stdout,
                    exception, exit_code, raised >>
    /\ UNCHANGED << jira_vars, ibs_vars >>
    /\ UNCHANGED rest_vars

\* 'if not config_found': the configuration packaged with the distribution.
UseBuiltin ==
    /\ pc = "builtin"
    /\ module_list' = load_config(BundledPath)
    /\ log' = log \o load_config_log(BundledPath) \o << <<"built-in", BundledPath>> >>
    /\ stderr' = stderr \o load_config_stderr(BundledPath)
    /\ pc' = "import"
    /\ UNCHANGED << env, fs, argv, loc_idx, real_location, tested, config_found,
                    mod_idx, registry, built, args, called, stdout, exception,
                    exit_code, raised >>
    /\ UNCHANGED << jira_vars, ibs_vars >>
    /\ UNCHANGED rest_vars

----------------------------------------------------------------------------
(* main(): the import of the plugins. *)

\* 'for module in module_list' when load_config returned None.
ModuleListNotIterable ==
    /\ pc = "import"
    /\ module_list.t = "none"
    /\ Crash("TypeError")
    /\ stderr' = Append(stderr, "traceback TypeError")
    /\ UNCHANGED << env, fs, argv, loc_idx, real_location, tested, module_list,
                    config_found, log, mod_idx, registry, built, args, called,
                    stdout, raised >>
    /\ UNCHANGED << jira_vars, ibs_vars >>
    /\ UNCHANGED rest_vars

\* A registry made anew for every plugin.
add_parser_alone(reg, keyword, parser) == [k \in {keyword} |-> parser]

\* SUBPARSERS.add_parser(keyword): the registry with the plugin's sub-parser.
add_parser(reg, keyword, parser) ==
    [k \in DOMAIN reg \cup {keyword} |-> IF k = keyword THEN parser ELSE reg[k]]

\* import_plugin(name) for the next module of the list: the module is imported
\* and its build_parser adds one sub-parser to SUBPARSERS.
ImportPlugin ==
    /\ pc = "import"
    /\ module_list.t = "list"
    /\ mod_idx <= Len(module_list.v)
    /\ LET name == module_list.v[mod_idx]
       IN /\ name \in PluginNames
          /\ registry' = add_parser(registry, Keyword(name), build_parser(name))
          /\ built' = Append(built, name)
    /\ mod_idx' = mod_idx + 1
    /\ UNCHANGED << env, fs, argv, pc, loc_idx, real_location, tested, module_list,
                    config_found, log, args, called, stdout, stderr, exception,
                    exit_code, raised >>
    /\ UNCHANGED << jira_vars, ibs_vars >>
    /\ UNCHANGED rest_vars

\* The exception import_plugin(name) raises, if any: the module does not exist,
\* it has no build_parser, or (argparse of Python 3.11 and later) its keyword
\* is registered already.
ImportErrors(name, reg) ==
    IF name \notin Importable THEN {"ModuleNotFoundError"}
    ELSE IF name \notin PluginNames THEN {"AttributeError"}
    ELSE IF Keyword(name) \in DOMAIN reg THEN {"ArgumentError"}
    ELSE {}

\* The loop over module_list going on to the next module after a failed import.
SkipFailedImport(e) ==
    /\ mod_idx' = mod_idx + 1
    /\ stderr' = Append(stderr, "traceback " \o e)
    /\ UNCHANGED << pc, exception, exit_code >>

\* What main() does with an exception of import_plugin: nothing catches it,
\* the loop over module_list is left.
OnImportError(e) ==
    /\ Crash(e)
    /\ stderr' = Append(stderr, "traceback " \o e)
    /\ UNCHANGED mod_idx

ImportPluginFails ==
    /\ pc = "import"
    /\ module_list.t = "list"
    /\ mod_idx <= Len(module_list.v)
    /\ \E e \in ImportErrors(module_list.v[mod_idx], registry) : OnImportError(e)
    /\ built' = IF module_list.v[mod_idx] \in PluginNames
                THEN Append(built, module_list.v[mod_idx]) ELSE built
    /\ UNCHANGED << env, fs, argv, loc_idx, real_location, tested, module_list,
                    config_found, log, registry, args, called, stdout, raised >>
    /\ UNCHANGED << jira_vars, ibs_vars >>
    /\ UNCHANGED rest_vars

----------------------------------------------------------------------------
(* main(): parse_args and the call of the handler. *)

\* parse_args entered as soon as the first module of the list is imported.
ImportsDoneEarly ==
    /\ pc = "import"
    /\ module_list.t = "list"
    /\ mod_idx > Len(module_list.v) \/ mod_idx > 1

ImportsDone ==
    /\ pc = "import"
    /\ module_list.t = "list"
    /\ mod_idx > Len(module_list.v)

\* args = PARSER.parse_args(), the arguments are accepted.
ParseArgs ==
    /\ ImportsDone
    /\ parse_args(argv, registry).ok
    /\ args' = parse_args(argv, registry).ns
    /\ pc' = "dispatch"
    /\ UNCHANGED << env, fs, argv, loc_idx, real_location, tested, module_list,
                    config_found, log, mod_idx, registry, built, called, stdout,
                    stderr, exception, exit_code, raised >>
    /\ UNCHANGED << jira_vars, ibs_vars >>
    /\ UNCHANGED rest_vars

\* PARSER.parse_args() rejects the arguments: usage and error message on
\* standard error, SystemExit(2).
ParseArgsError ==
    /\ ImportsDone
    /\ ~ parse_args(argv, registry).ok
    /\ stderr' = Append(stderr, "usage")
    /\ pc' = "exited"
    /\ exit_code' = 2
    /\ UNCHANGED << env, fs, argv, loc_idx, real_location, tested, module_list,
                    config_found, log, mod_idx, registry, built, args, called,
                    stdout, exception, raised >>
    /\ UNCHANGED << jira_vars, ibs_vars >>
    /\ UNCHANGED rest_vars

\* The attribute lookup of 'args.func(args)'.
HasFunc(ns) == "func" \in DOMAIN ns

\* The handler entered a second time before main() goes on.
CallHandlerTwice ==
    /\ pc = "dispatch"
    /\ HasFunc(args)
    /\ called' = Append(called, args["func"])
    /\ pc' = IF called = << >> THEN "dispatch" ELSE "handler"
    /\ UNCHANGED << env, fs, argv, loc_idx, real_location, tested, module_list,
                    config_found, log, mod_idx, registry, built, args, stdout,
                    stderr, exception, exit_code, raised >>
    /\ UNCHANGED << jira_vars, ibs_vars >>
    /\ UNCHANGED rest_vars

\* args.func(args): the handler is entered.
CallHandler ==
    /\ pc = "dispatch"
    /\ HasFunc(args)
    /\ called' = Append(called, args["func"])
    /\ pc' = "handler"
    /\ UNCHANGED << env, fs, argv, loc_idx, real_location, tested, module_list,
                    config_found, log, mod_idx, registry, built, args, stdout,
                    stderr, exception, exit_code, raised >>
    /\ UNCHANGED << jira_vars, ibs_vars >>
    /\ UNCHANGED rest_vars

\* args.func(args) on a namespace without func.
NoFuncAttribute ==
    /\ pc = "dispatch"
    /\ ~ HasFunc(args)
    /\ Crash("AttributeError")
    /\ stderr' = Append(stderr, "traceback AttributeError")
    /\ UNCHANGED << env, fs, argv, loc_idx, real_location, tested, module_list,
                    config_found, log, mod_idx, registry, built, args, called,
                    stdout, raised >>
    /\ UNCHANGED << jira_vars, ibs_vars >>
    /\ UNCHANGED rest_vars

VersionHandler == "version.main_cli"
NameResolutionError == "URLError: Name or service not known"

\* The exceptions a handler can end with. version.main_cli only prints; the
\* other handlers talk to the build service, Jira or Confluence.
HandlerExceptions(handler) ==
    IF handler = VersionHandler THEN {}
    ELSE {NameResolutionError, "RuntimeError"}

\* An exception of the handler caught and dropped, the run ending normally.
Swallow(e) ==
    /\ raised' = e
    /\ pc' = "exited"
    /\ exit_code' = 0
    /\ UNCHANGED << exception, stderr, stdout >>

\* What main() does with an exception of the handler: nothing catches it.
Propagate(e) ==
    /\ raised' = e
    /\ Crash(e)
    /\ stderr' = Append(stderr, "traceback " \o e)
    /\ UNCHANGED stdout

\* The handler returns; main() returns after it and the process ends with 0.
HandlerReturns ==
    /\ pc = "handler"
    /\ stdout' = IF args["func"] = VersionHandler
                 THEN Append(stdout, "__version__") ELSE stdout
    /\ pc' = "exited"
    /\ exit_code' = 0
    /\ UNCHANGED << env, fs, argv, loc_idx, real_location, tested, module_list,
                    config_found, log, mod_idx, registry, built, args, called,
                    stderr, exception, raised >>
    /\ UNCHANGED << jira_vars, ibs_vars >>
    /\ UNCHANGED rest_vars

\* The handler raises.
HandlerRaises ==
    /\ pc = "handler"
    /\ \E e \in HandlerExceptions(args["func"]) : Propagate(e)
    /\ UNCHANGED << env, fs, argv, loc_idx, real_location, tested, module_list,
                    config_found, log, mod_idx, registry, built, args, called >>
    /\ UNCHANGED << jira_vars, ibs_vars >>
    /\ UNCHANGED rest_vars

Next ==
    \/ CheckLocation
    \/ UseBuiltin
    \/ ModuleListNotIterable
    \/ ImportPlugin
    \/ ImportPluginFails
    \/ ParseArgs
    \/ ParseArgsError
    \/ CallHandler
    \/ NoFuncAttribute
    \/ HandlerReturns
    \/ HandlerRaises

Spec == Init /\ [][Next]_vars

Terminated == pc \in {"exited", "crashed"}

TypeOK ==
    /\ pc \in {"resolve", "builtin", "import", "dispatch", "handler", "exited",
               "crashed"}
    /\ module_list.t \in {"list", "none"}
    /\ exit_code \in {NoExit, 0, 1, 2}
    /\ (exit_code # NoExit) = Terminated
    /\ (exception # NoException) = (pc = "crashed")

----------------------------------------------------------------------------
(* Properties of the search for the configuration. *)

Locations == 1..Len(CONFIG_LOCATIONS)

\* The search over the candidate locations is over.
Resolved == pc # "resolve"

\* The module list is final: the fallback was taken or was not needed.
ModuleListFinal == pc \notin {"resolve", "builtin"}

\* The candidates that exist, by their index in CONFIG_LOCATIONS.
Existing == {i \in Locations : isfile(RealLocation(CONFIG_LOCATIONS[i], env))}

LastExisting == CHOOSE i \in Existing : \A j \in Existing : j <= i

LastExistingPath == RealLocation(CONFIG_LOCATIONS[LastExisting], env)

BuiltinUsed == \E i \in 1..Len(log) : log[i] = <<"built-in", BundledPath>>

BundledParsed == \E i \in 1..Len(log) : log[i][2] = BundledPath

\* C1: when at least one candidate location names an existing file, the
\* resolved module list is the one parsed from the existing candidate that
\* comes last in CONFIG_LOCATIONS, whatever the earlier candidates hold; this is
\* the list main() works with and the list config.load_modules() returns.
C1_LastMatchWins ==
    (Resolved /\ Existing # {}) =>
        /\ module_list = load_config(LastExistingPath)
        /\ load_modules = load_config(LastExistingPath)

\* The first and the third candidate exist with different lists and the third
\* one's list is the resolved one.
C1_Witness ==
    /\ pc = "import"
    /\ Existing = {1, 3}
    /\ load_config(EtcPath) # load_config(tested[3])
    /\ load_config(EtcPath).t = "list"
    /\ module_list = load_config(tested[3])

\* C2: the bundled configuration is parsed if and only if none of the three
\* candidate locations names an existing file; the resolved module list is
\* then exactly the list of the bundled configuration, so the absence of a
\* configuration never leaves the run without a module list.
C2_FallbackIffNoCandidate ==
    /\ BundledParsed => (Existing = {} /\ BuiltinUsed)
    /\ (ModuleListFinal /\ Existing = {}) =>
          /\ BundledParsed
          /\ module_list = PyList(fs[BundledPath].modules)
          /\ load_modules = PyList(fs[BundledPath].modules)
    /\ (ModuleListFinal /\ Existing # {}) => ~ BundledParsed

C2_Witness ==
    /\ pc = "import"
    /\ Existing = {}
    /\ BundledParsed
    /\ module_list = PyList(BundledModules)

\* C7: a candidate that exists and does not hold valid JSON gives the empty
\* module list and raises nothing: when it is the last existing candidate the
\* resolved list is [] and the bundled configuration is not used, the run goes
\* on to parse argv; when a later candidate exists with a module list, that
\* later list is the resolved one.
C7_MalformedGivesEmptyList ==
    /\ (Resolved /\ Existing # {} /\ fs[LastExistingPath].kind = "invalid") =>
          /\ module_list = PyList(<< >>)
          /\ load_modules = PyList(<< >>)
          /\ pc # "builtin"
          /\ ~ BundledParsed
          /\ built = << >>
          /\ exception \notin {"JSONDecodeError", "TypeError"}
    /\ \A i \in Existing :
          (/\ Resolved
           /\ fs[RealLocation(CONFIG_LOCATIONS[i], env)].kind = "invalid"
           /\ i < LastExisting
           /\ fs[LastExistingPath].has_modules) =>
              module_list = PyList(fs[LastExistingPath].modules)

\* An invalid file is the only candidate and argv was parsed against the
\* empty registry.
C7_Witness ==
    /\ pc = "exited"
    /\ Existing = {1}
    /\ fs[EtcPath] = InvalidJson
    /\ module_list = PyList(<< >>)
    /\ registry = [k \in {} |-> PARSER]

\* C8: a candidate that holds a JSON object without the field modules gives
\* the empty module list, not None, and the run goes on through the import of
\* the plugins to the parse of argv without an error.
C8_MissingFieldGivesEmptyList ==
    (Resolved /\ Existing # {} /\ fs[LastExistingPath] = NoModulesField) =>
        /\ module_list = PyList(<< >>)
        /\ exception # "TypeError"

\* The location refers to a variable that is not set.
RefersToUnset(location) ==
    \E k \in 1..Len(location) :
        location[k].kind = "var" /\ env[location[k].text] = Unset

\* C9 as stated: for a location that refers to an unset variable the path
\* tested is the location with the reference replaced by the empty string, and
\* the candidate is skipped whatever files the working directory holds.
C9_UnsetExpandsToEmpty ==
    \A i \in 1..Len(tested) :
        RefersToUnset(CONFIG_LOCATIONS[i]) =>
            /\ tested[i] = ExpandUnsetToEmpty(CONFIG_LOCATIONS[i], env)
            /\ log[i] = <<"skipped", tested[i]>>

\* C9 as amended: for a location that refers to an unset variable the path
\* tested is the location as written, the reference left in place; the
\* candidate is skipped unless a regular file of that literal name exists,
\* and in both cases the search goes on over the remaining candidates
\* without an error.
C9_UnsetLeftInPlace ==
    /\ \A i \in 1..Len(tested) :
          RefersToUnset(CONFIG_LOCATIONS[i]) =>
              /\ tested[i] = Text(CONFIG_LOCATIONS[i])
              /\ (log[i] = <<"skipped", tested[i]>>) = (fs[tested[i]] = Absent)
              /\ (log[i] = <<"loaded", tested[i]>>) = (fs[tested[i]].kind = "object")
    /\ Len(tested) = (IF Resolved THEN Len(CONFIG_LOCATIONS) ELSE loc_idx - 1)
    /\ pc = "resolve" => (exception = NoException /\ loc_idx \in Locations)

\* Both variables are unset: the second candidate is skipped, the third is
\* found as a file of the literal name in the working directory.
C9_Witness ==
    /\ pc = "import"
    /\ env["XDG_CONFIG_HOME"] = Unset
    /\ env["RELEASE_MANAGEMENT_TOOLS_FILE"] = Unset
    /\ log[2] = <<"skipped", LiteralXdgPath>>
    /\ log[3] = <<"loaded", LiteralToolsPath>>
    /\ module_list = load_config(LiteralToolsPath)

----------------------------------------------------------------------------
(* Properties of the registry, the parse of argv and the dispatch. *)

\* parse_args was reached: every module of the list was imported.
ParseReached ==
    \/ pc \in {"dispatch", "handler", "exited"}
    \/ pc = "crashed" /\ args # EmptyNamespace

\* parse_args accepted argv.
ArgvAccepted == args # EmptyNamespace

\* argv selects this registered sub-command.
Selected(keyword) == Subcommand(argv) = keyword /\ keyword \in DOMAIN registry

\* C3: after the parse of argv the namespace carries func if and only if a
\* sub-command was matched: every registered sub-command binds a handler, and
\* a run that selects a registered sub-command enters its handler.
C3_FuncIffSubcommand ==
    /\ ArgvAccepted => (HasFunc(args) <=> Subcommand(argv) \in DOMAIN registry)
    /\ (ArgvAccepted /\ Terminated /\ Subcommand(argv) \in DOMAIN registry) =>
          Len(called) = 1

\* C4: when argv selects no sub-command the run prints the top-level help and
\* ends with exit code 1, and not through an uncaught exception.
C4_NoSubcommandPrintsHelp ==
    (ParseReached /\ Terminated /\ Subcommand(argv) = "none") =>
        /\ exit_code = 1
        /\ exception = NoException
        /\ \E i \in 1..Len(stdout) : stdout[i] = "help"

\* C5: whatever the resolved module list, the sub-command version is
\* registered when argv is parsed, and a run with argv = version prints the
\* version and ends with exit code 0.
C5_VersionAlwaysRegistered ==
    /\ ParseReached => "version" \in DOMAIN registry
    /\ (ParseReached /\ Terminated /\ argv = << "version" >>) =>
          /\ exit_code = 0
          /\ stdout = << "__version__" >>

\* C6: a handler that raises the name resolution failure makes the run print
\* the remediation message and end with exit code 1; the exception itself
\* never leaves main().
C6_NameResolutionTranslated ==
    raised = NameResolutionError =>
        /\ exception = NoException
        /\ exit_code = 1
        /\ \E i \in 1..Len(stdout) : stdout[i] = "remediation"

\* The dests and set_defaults keys a sub-parser declares.
OwnDests(parser) == DOMAIN InitialNamespace(parser)

\* The values an attribute of the selected sub-parser can hold: its default,
\* the const of one of its options, or a word of argv.
OwnValues(parser, dest) ==
    {InitialNamespace(parser)[dest]}
    \cup {o.const : o \in {x \in parser.options : x.dest = dest /\ x.action # "store"}}
    \cup RangeOf(argv)

\* The argument vectors of the model that are complete for their sub-command.
CompleteArgv ==
    { << "version" >>,
      << "release_to", "--test", "SUSE:SLE-15-SP5:GA" >>,
      << "release_to_test", "SUSE:SLE-15-SP5:GA" >>,
      << "sle_build", "15-SP5" >>,
      << "ibs_to_jira", "-j", "my_pat", "--milestone" >>,
      << "--osc-config", "/home/user/.oscrc", "ibs_to_jira", "-j", "my_pat" >>,
      << "list_accepted_pkgs", "-p", "SUSE:SLE-15-SP4:GA" >> }

\* C10: each registered sub-command can be invoked whatever other plugins
\* are registered, and the namespace of an invocation holds the four global
\* options, the attributes the selected sub-parser declares (with a value of
\* that sub-parser or of argv) and its handler, and nothing else: no
\* attribute and no default another plugin declares shows up in it.
C10_PluginIsolation ==
    \A k \in DOMAIN registry :
        /\ (ParseReached /\ Selected(k) /\ argv \in CompleteArgv) => ArgvAccepted
        /\ (ArgvAccepted /\ Selected(k)) =>
              /\ DOMAIN args = GlobalDests \cup OwnDests(registry[k])
              /\ \A d \in OwnDests(registry[k]) : args[d] \in OwnValues(registry[k], d)
              /\ \A m \in DOMAIN registry \ {k} :
                    \A d \in OwnDests(registry[m]) \ OwnDests(registry[k]) :
                        d \notin DOMAIN args

\* ibs_to_jira is invoked while list_accepted_pkgs, which declares --project
\* with another default and --days, is registered too.
C10_Witness ==
    /\ pc = "dispatch"
    /\ Selected("ibs_to_jira")
    /\ "list_accepted_pkgs" \in DOMAIN registry
    /\ args["project"] = "SUSE:SLE-15-SP5:GA"
    /\ "time_range" \notin DOMAIN args

----------------------------------------------------------------------------
(* Properties of the order of a run. *)

IsPrefix(a, b) == Len(a) <= Len(b) /\ \A i \in 1..Len(a) : a[i] = b[i]

\* C11: for a resolved module list the build_parser of the modules is called
\* once per entry of the list and in the order of the list, and when argv is
\* parsed the build_parser of every entry has been called.
C11_BuildParserInListOrder ==
    (ModuleListFinal /\ module_list.t = "list") =>
        /\ IsPrefix(built, module_list.v)
        /\ pc = "import" => Len(built) = mod_idx - 1
        /\ ParseReached => built = module_list.v

\* Three plugins were registered in the order of the list and argv is parsed.
C11_Witness ==
    /\ pc = "dispatch"
    /\ module_list = PyList(<< "sle_build", "ibs_to_jira", "version" >>)
    /\ built = << "sle_build", "ibs_to_jira", "version" >>

\* The entries of the list that do not name a module with a build_parser.
Unloadable ==
    {i \in 1..Len(module_list.v) : module_list.v[i] \notin PluginNames}

FirstUnloadable == CHOOSE i \in Unloadable : \A j \in Unloadable : i <= j

\* C12: when a name of the module list cannot be resolved in the package, or
\* the module has no build_parser, the start aborts with that error: no later
\* module of the list is loaded, argv is not parsed and no handler is called.
C12_ImportErrorAborts ==
    (ModuleListFinal /\ module_list.t = "list" /\ Unloadable # {}) =>
        /\ mod_idx <= FirstUnloadable
        /\ Len(built) < FirstUnloadable
        /\ ~ ParseReached
        /\ args = EmptyNamespace
        /\ called = << >>
        /\ Terminated =>
              /\ pc = "crashed"
              /\ exit_code = 1
              /\ mod_idx = FirstUnloadable =>
                    exception = (IF module_list.v[mod_idx] \in Importable
                                 THEN "AttributeError" ELSE "ModuleNotFoundError")

\* The second entry of the list cannot be resolved: the run ended there, the
\* third entry was never loaded.
C12_Witness ==
    /\ pc = "crashed"
    /\ module_list = PyList(<< "version", "no_such_module", "sle_build" >>)
    /\ exception = "ModuleNotFoundError"
    /\ built = << "version" >>
    /\ DOMAIN registry = {"version"}

Printed(text) == \E i \in 1..Len(stdout) : stdout[i] = text

\* C13: an exception of the handler other than the name resolution failure
\* leaves main() as it was raised: no remediation message is printed and the
\* run does not end with exit code 0.
C13_OtherExceptionsPropagate ==
    raised \notin {NoException, NameResolutionError} =>
        /\ pc = "crashed"
        /\ exception = raised
        /\ exit_code # 0
        /\ ~ Printed("remediation")

C13_Witness ==
    /\ raised = "RuntimeError"
    /\ exception = "RuntimeError"
    /\ called = << "sle_build.main_cli" >>

\* The phases of a run in their order.
Phase(p) ==
    CASE p = "resolve" -> 1
      [] p = "builtin" -> 2
      [] p = "import" -> 3
      [] p = "dispatch" -> 4
      [] p = "handler" -> 5
      [] p \in {"exited", "crashed"} -> 6

C15_OneNewKeywordPerRegistration ==
    [][/\ registry' # registry => (pc = "import" /\ pc' = "import")
       /\ (pc = "import" /\ pc' = "import" /\ mod_idx' = mod_idx + 1) =>
             Cardinality(DOMAIN registry') = Cardinality(DOMAIN registry) + 1
       /\ Phase(pc) >= 4 => registry' = registry]_vars

\* C15 as amended: the registry changes only in the plugin loading phase;
\* every successful registration puts the keyword of the module and its
\* sub-parser into it and leaves the other keywords as they are, which is one
\* new keyword unless the keyword is registered already (a module named twice
\* in the list, accepted by argparse before Python 3.11); from the parse of
\* argv on the registry does not change.
C15_RegistryGrowsOnlyWhileLoading ==
    [][/\ registry' # registry => (pc = "import" /\ pc' = "import")
       /\ (pc = "import" /\ pc' = "import" /\ mod_idx' = mod_idx + 1) =>
             LET k == Keyword(module_list.v[mod_idx])
             IN /\ DOMAIN registry' = DOMAIN registry \cup {k}
                /\ registry'[k] = build_parser(module_list.v[mod_idx])
                /\ \A other \in DOMAIN registry \ {k} :
                      registry'[other] = registry[other]
                /\ Cardinality(DOMAIN registry') =
                      Cardinality(DOMAIN registry)
                      + (IF k \in DOMAIN registry THEN 0 ELSE 1)
       /\ Phase(pc) >= 4 => registry' = registry]_vars

\* Three keywords are registered and the handler has run to its end.
C15_Witness ==
    /\ pc = "exited"
    /\ exit_code = 0
    /\ DOMAIN registry = {"sle_build", "ibs_to_jira", "version"}

----------------------------------------------------------------------------
(* The Jira server, as the jira client library shows it to utils/jira.py.  *)
(* Every ticket a submit request mentions exists and is readable.          *)

\* Most calls of JiraUtils methods one client makes in a row.
MaxCalls == 2

\* Largest max_results a search is called with.
MaxResults == 2

\* The tickets of the server, in the order it lists them in a search result.
TrackerOrder == << "PED-141", "PED-157" >>

Tickets == RangeOf(TrackerOrder)

\* The workflow states the searches of ibs_to_jira tell apart. The estimation
\* states between "Open" and "Dev In Progress" are left out.
Statuses == { "Open", "Dev In Progress", "IBS Integration", "QE Open" }

IssueTypes == { "Implementation", "Epic" }

Issue(status, issuetype, labels) ==
    [status |-> status, issuetype |-> issuetype, labels |-> labels]

Transition(id, name, to) == [id |-> id, name |-> name, to |-> to]

\* The transitions the workflow offers for an issue in a status.
Workflow ==
    [s \in Statuses |->
        CASE s = "Open" -> << Transition("11", "Start", "Dev In Progress") >>
          [] s = "Dev In Progress" ->
                << Transition("21", "Dev Done", "IBS Integration") >>
          [] s = "IBS Integration" ->
                << Transition("31", "Integrated", "QE Open"),
                   Transition("41", "Reject", "Dev In Progress") >>
          [] s = "QE Open" -> << >>]

\* jira_obj.transitions(jsc)
transitions(t, jsc) == Workflow[t[jsc].status]

\* jira_obj.transition_issue(jsc, id)
transition_issue(t, jsc, id) ==
    LET offered == transitions(t, jsc)
        i == CHOOSE i \in 1..Len(offered) : offered[i].id = id
    IN [t EXCEPT ![jsc].status = offered[i].to]

\* A JQL query: the keys of 'issue in (...)', the statuses and the types it admits.
Jql(keys, statuses, issuetypes) ==
    [keys |-> keys, statuses |-> statuses, issuetypes |-> issuetypes]

\* The first n elements of a sequence.
Take(seq, n) == SubSeq(seq, 1, IF n < Len(seq) THEN n ELSE Len(seq))

\* jira_obj.search_issues(jql, maxResults=max_results): the matching issues in
\* the order of the server; a max_results of 0 asks for all of them.
search_issues(t, jql, max_results) ==
    LET matches(key) ==
            /\ key \in RangeOf(jql.keys)
            /\ t[key].status \in jql.statuses
            /\ t[key].issuetype \in jql.issuetypes
        found == SelectSeq(TrackerOrder, matches)
        page == IF max_results = 0 THEN found ELSE Take(found, max_results)
    IN [i \in 1..Len(page) |-> [class |-> "Issue", key |-> page[i]]]

----------------------------------------------------------------------------
(* utils/jira.py: JiraUtils. *)

\* jira.Issue, the class object the search loop hands to isinstance.
IssueClass == [class |-> "type", key |-> "Issue"]

isinstance(obj, classname) == obj.class = classname

\* The keys of a list of issues.
KeysOf(found) == [i \in 1..Len(found) |-> found[i].key]

\* JiraUtils.jira_do_search
jira_do_search(t, jql, max_results) ==
    LET found == search_issues(t, jql, max_results)
        kept(issue) == isinstance(IssueClass, "str")
    IN KeysOf(SelectSeq(found, kept))

\* A lookup that takes the first transition offered, whatever its name.
first_transition_id(t, jsc, transition_name) ==
    IF transitions(t, jsc) = << >> THEN "" ELSE transitions(t, jsc)[1].id

\* JiraUtils.jira_get_transition_id: the id of the last transition of that name.
jira_get_transition_id(t, jsc, transition_name) ==
    LET offered == transitions(t, jsc)
        named == { i \in 1..Len(offered) : offered[i].name = transition_name }
    IN IF named = {} THEN ""
       ELSE offered[CHOOSE i \in named : \A j \in named : j <= i].id

\* JiraUtils.jira_transition_tickets: the server after the call, the
\* transition_issue calls it accepted and the records logged.
jira_transition_tickets(t, jsc) ==
    LET target_transition_id == jira_get_transition_id(t, jsc, "Integrated")
    IN IF target_transition_id = ""
       THEN [tracker |-> t, transitioned |-> << >>,
             jira_log |-> << << "error", "not transitioned", jsc >> >>]
       ELSE [tracker |-> transition_issue(t, jsc, target_transition_id),
             transitioned |-> << << jsc, target_transition_id >> >>,
             jira_log |-> << >>]

----------------------------------------------------------------------------
(* A client of JiraUtils that calls its methods one after the other, as    *)
(* tests/utils/jira_test.py does.                                          *)

\* cli.main() is not running.
CliIdle ==
    /\ env = << >>
    /\ fs = << >>
    /\ argv = << >>
    /\ pc = "idle"
    /\ loc_idx = 1
    /\ real_location = NoPath
    /\ tested = << >>
    /\ module_list = PyList(<< >>)
    /\ config_found = FALSE
    /\ log = << >>
    /\ mod_idx = 1
    /\ registry = << >>
    /\ built = << >>
    /\ args = EmptyNamespace
    /\ called = << >>
    /\ stdout = << >>
    /\ stderr = << >>
    /\ raised = NoException
    /\ exception = NoException
    /\ exit_code = NoExit

\* The lists of distinct keys a query names in 'issue in (...)'.
KeyLists ==
    { keys \in UNION { [1..n -> Tickets] : n \in 0..Cardinality(Tickets) } :
        \A i, j \in 1..Len(keys) : i # j => keys[i] # keys[j] }

\* The queries of the client.
Queries ==
    { Jql(keys, statuses, issuetypes) :
        keys \in KeyLists,
        statuses \in { {"IBS Integration"}, {"Dev In Progress"}, Statuses },
        issuetypes \in { {"Implementation"}, IssueTypes } }

NoCall ==
    [n |-> 0, op |-> "", jsc |-> "", jql |-> Jql(<< >>, {}, {}), max_results |-> 0,
     result |-> << >>]

JiraUtilsInit ==
    /\ CliIdle
    /\ IbsIdle
    /\ RestIdle
    /\ tracker \in [Tickets -> { Issue(status, issuetype, << >>) :
                                   status \in Statuses, issuetype \in IssueTypes }]
    /\ comments = << >>
    /\ transitioned = << >>
    /\ jira_log = << >>
    /\ call = NoCall

\* A call of jira_do_search(jql, max_results).
CallJiraDoSearch ==
    /\ call.n < MaxCalls
    /\ \E jql \in Queries, max_results \in 0..MaxResults :
          call' = [n |-> call.n + 1, op |-> "jira_do_search", jsc |-> "", jql |-> jql,
                   max_results |-> max_results,
                   result |-> jira_do_search(tracker, jql, max_results)]
    /\ UNCHANGED << tracker, comments, transitioned, jira_log >>
    /\ UNCHANGED << cli_vars, ibs_vars >>
    /\ UNCHANGED rest_vars

\* A call of jira_transition_tickets(jsc).
CallJiraTransitionTickets ==
    /\ call.n < MaxCalls
    /\ \E jsc \in Tickets :
          /\ LET done == jira_transition_tickets(tracker, jsc)
             IN /\ tracker' = done.tracker
                /\ transitioned' = transitioned \o done.transitioned
                /\ jira_log' = jira_log \o done.jira_log
          /\ call' = [NoCall EXCEPT !.n = call.n + 1, !.op = "jira_transition_tickets",
                                    !.jsc = jsc]
    /\ UNCHANGED comments
    /\ UNCHANGED << cli_vars, ibs_vars >>
    /\ UNCHANGED rest_vars

JiraUtilsNext ==
    \/ CallJiraDoSearch
    \/ CallJiraTransitionTickets

SpecJiraUtils == JiraUtilsInit /\ [][JiraUtilsNext]_vars

----------------------------------------------------------------------------
(* Properties of JiraUtils. *)

\* C17: jira_do_search(jql, max_results) returns the keys of the issues that
\* match the query, in the order of the server and at most max_results of
\* them; when exactly one issue matches, the result is the list of its key.
C17_SearchReturnsMatchingKeys ==
    call.op = "jira_do_search" =>
        LET matching == KeysOf(search_issues(tracker, call.jql, 0))
        IN /\ call.result = Take(matching, call.max_results)
           /\ Len(matching) = 1 /\ call.max_results >= 1 => call.result = matching

\* The transition named "Integrated" is offered for the ticket.
IntegratedOffered(t, jsc) ==
    \E i \in 1..Len(transitions(t, jsc)) : transitions(t, jsc)[i].name = "Integrated"

\* C18: jira_transition_tickets(jsc) performs the transition "Integrated"
\* exactly once when the server offers it for the ticket, which moves the
\* ticket to "QE Open"; when it is not offered, no transition is performed,
\* one error is logged and the ticket keeps its status.
C18_TransitionIffOffered ==
    [][ call'.n # call.n /\ call'.op = "jira_transition_tickets" =>
          LET jsc == call'.jsc
          IN IF IntegratedOffered(tracker, jsc)
             THEN /\ Len(transitioned') = Len(transitioned) + 1
                  /\ SubSeq(transitioned', 1, Len(transitioned)) = transitioned
                  /\ transitioned'[Len(transitioned')] = << jsc, "31" >>
                  /\ tracker' = [tracker EXCEPT ![jsc].status = "QE Open"]
                  /\ jira_log' = jira_log
             ELSE /\ transitioned' = transitioned
                  /\ tracker' = tracker
                  /\ jira_log' = Append(jira_log, << "error", "not transitioned", jsc >>)
      ]_vars

\* One client has moved a ticket on and was refused for another.
C18_Witness ==
    /\ call.op = "jira_transition_tickets"
    /\ \E jsc \in Tickets :
          /\ << jsc, "31" >> \in RangeOf(transitioned)
          /\ tracker[jsc].status = "QE Open"
    /\ \E jsc \in Tickets : << "error", "not transitioned", jsc >> \in RangeOf(jira_log)

----------------------------------------------------------------------------
(* ibs_to_jira.py: dictionaries and the functions without side effects.    *)
(* A dict is the sequence of its items in insertion order.                 *)

\* Most submit requests main_osc_work() collects.
MaxSRs == 2

\* Most tickets one submit request mentions.
MaxJscs == 2

Item(key, value) == [k |-> key, v |-> value]

\* list(d.keys())
DictKeys(d) == [i \in 1..Len(d) |-> d[i].k]

\* list(d.values())
DictValues(d) == [i \in 1..Len(d) |-> d[i].v]

\* key in d
HasKey(d, key) == \E i \in 1..Len(d) : d[i].k = key

\* d[key]
Get(d, key) == d[CHOOSE i \in 1..Len(d) : d[i].k = key].v

\* d[key] = value
Put(d, key, value) ==
    IF HasKey(d, key)
    THEN [i \in 1..Len(d) |-> IF d[i].k = key THEN Item(key, value) ELSE d[i]]
    ELSE Append(d, Item(key, value))

\* A loop body that stores the submit request as the only one of the ticket.
MentionAlone(result, jsc, submit_request) == Put(result, jsc, << submit_request >>)

\* The body of the inner loop of transform_srs_per_jsc_to_jsc_per_sr.
Mention(result, jsc, submit_request) ==
    LET started == IF HasKey(result, jsc) THEN result ELSE Put(result, jsc, << >>)
    IN Put(started, jsc, Append(Get(started, jsc), submit_request))

\* 'for jsc in jscs'
RECURSIVE MentionAll(_, _, _)
MentionAll(result, jscs, submit_request) ==
    IF jscs = << >> THEN result
    ELSE MentionAll(Mention(result, Head(jscs), submit_request), Tail(jscs),
                    submit_request)

\* 'for submit_request, jscs in srs_with_jscs.items()'
RECURSIVE TransformFrom(_, _)
TransformFrom(result, items) ==
    IF items = << >> THEN result
    ELSE TransformFrom(MentionAll(result, Head(items).v, Head(items).k), Tail(items))

transform_srs_per_jsc_to_jsc_per_sr(srs_with_jscs) == TransformFrom(<< >>, srs_with_jscs)

\* format_list_of_srs: one line of Jira markup per submit request.
RECURSIVE format_list_of_srs(_, _)
format_list_of_srs(srs, web_ui_url) ==
    IF srs = << >> THEN ""
    ELSE "- [" \o ToString(Head(srs)) \o "|" \o web_ui_url \o "/request/show/"
         \o ToString(Head(srs)) \o "]\n" \o format_list_of_srs(Tail(srs), web_ui_url)

\* The comment templates: literal text and the three %s conversions.
Merged == "A submit request referencing this feature has been merged into "

comment_template_correct == << Merged, "%s", "%s", ". Submit Requests: ", "%s" >>

comment_template_incorrect ==
    << Merged, "%s", "%s", ". Please update the state of this ticket. Submit Requests: ",
       "%s" >>

comment_template_development == << Merged, "%s", "%s", ". Submit Requests: ", "%s" >>

comment_template_other == << Merged, "%s", "%s", ". Submit Requests: ", "%s" >>

\* template % values: the n-th %s is replaced by the n-th value.
RECURSIVE Format(_, _)
Format(template, values) ==
    IF template = << >> THEN << >>
    ELSE IF Head(template) = "%s"
         THEN << Head(values) >> \o Format(Tail(template), Tail(values))
         ELSE << Head(template) >> \o Format(Tail(template), values)

\* A template rendered without the milestone text.
build_comment_without_milestone(name, comment_template, srs, osc_api_url,
                                build_number) ==
    Format(comment_template,
           << build_number, "", format_list_of_srs(srs, osc_api_url) >>)

\* JiraWork._build_comment_template
build_comment_template(name, comment_template, srs, osc_api_url, build_number) ==
    LET milestone_text == IF name # "" THEN " (" \o name \o ")" ELSE ""
    IN Format(comment_template,
              << build_number, milestone_text, format_list_of_srs(srs, osc_api_url) >>)

----------------------------------------------------------------------------
(* ibs_to_jira.py: JiraWork. *)

Raised(name) == [t |-> "raise", v |-> name]

CategoryOrder == << "CORRECT", "INCORRECT", "DEVELOPMENT", "OTHER" >>

issue_status_disallowed ==
    { "QE Open", "QE In Progress", "QE Blocked", "Engineering Done", "In Maintenance",
      "Dev In Progress", "IBS Integration" }

\* JiraWork.jira_search_correct
jira_search_correct(t, jscs) ==
    jira_do_search(t, Jql(jscs, {"IBS Integration"}, {"Implementation"}), Len(jscs))

\* JiraWork.jira_search_incorrect
jira_search_incorrect(t, jscs) ==
    jira_do_search(t, Jql(jscs, Statuses \ issue_status_disallowed, {"Implementation"}),
                   Len(jscs))

\* JiraWork.jira_search_development
jira_search_development(t, jscs) ==
    jira_do_search(t, Jql(jscs, {"Dev In Progress"}, {"Implementation"}), Len(jscs))

\* list.remove(x): the list without the first x.
RECURSIVE RemoveFirst(_, _)
RemoveFirst(seq, x) ==
    IF seq = << >> THEN << >>
    ELSE IF Head(seq) = x THEN Tail(seq)
    ELSE << Head(seq) >> \o RemoveFirst(Tail(seq), x)

\* 'for jsc_list in issues_by_category.values()': result.remove(jsc) for every
\* list that holds jsc, a ValueError when result holds it no more.
RECURSIVE RemoveForEachList(_, _, _)
RemoveForEachList(result, jsc, lists) ==
    IF lists = << >> \/ result.t = "raise" THEN result
    ELSE IF jsc \notin RangeOf(Head(lists))
         THEN RemoveForEachList(result, jsc, Tail(lists))
    ELSE IF jsc \notin RangeOf(result.v) THEN Raised("ValueError")
    ELSE RemoveForEachList(PyList(RemoveFirst(result.v, jsc)), jsc, Tail(lists))

\* 'for jsc in list_with_jscs'
RECURSIVE SearchOtherFrom(_, _, _)
SearchOtherFrom(result, jscs, lists) ==
    IF jscs = << >> THEN result
    ELSE SearchOtherFrom(RemoveForEachList(result, Head(jscs), lists), Tail(jscs), lists)

\* JiraWork.jira_search_other
jira_search_other(by_category, list_with_jscs) ==
    SearchOtherFrom(PyList(list_with_jscs), list_with_jscs, DictValues(by_category))

\* 'if label not in labels: labels.append(label)'
AppendMissing(labels, label) ==
    IF label \in RangeOf(labels) THEN labels ELSE Append(labels, label)

Comment(issue, body) == [issue |-> issue, body |-> body]

\* What a jira_post_comment_* call did: the comments the server accepted,
\* the server afterwards and the exception that ended the call, if any.
Posted(posted, t, name) == [comments |-> posted, tracker |-> t, raised |-> name]

\* JiraWork.jira_post_comment_correct
jira_post_comment_correct(name, t, issue, srs) ==
    LET comment == build_comment_template(name, comment_template_correct, srs,
                                          "https://api.suse.de", "")
        labels == AppendMissing(AppendMissing(t[issue].labels, "status:code_merged"),
                                "status:wait_for_status")
    IN Posted(<< Comment(issue, comment) >>, [t EXCEPT ![issue].labels = labels],
              NoException)

\* JiraWork.jira_post_comment_incorrect
jira_post_comment_incorrect(name, t, issue, srs) ==
    LET comment == build_comment_template(name, comment_template_incorrect, srs,
                                          "https://api.suse.de", "")
        labels == AppendMissing(AppendMissing(t[issue].labels,
                                              "status:wait_for_status"),
                                "status:code_merged")
    IN Posted(<< Comment(issue, comment) >>, [t EXCEPT ![issue].labels = labels],
              NoException)

\* JiraWork.jira_post_comment_development: labels.remove of a label that is
\* not in the list raises ValueError before issue_obj.update is reached.
jira_post_comment_development(name, t, issue, srs) ==
    LET comment == build_comment_template(name, comment_template_development, srs,
                                          "https://api.suse.de", "")
        labels == AppendMissing(t[issue].labels, "status:code_merged")
    IN IF "status:wait_for_status" \notin RangeOf(labels)
       THEN Posted(<< Comment(issue, comment) >>, t, "ValueError")
       ELSE Posted(<< Comment(issue, comment) >>, [t EXCEPT ![issue].labels = labels],
                   NoException)

\* JiraWork.jira_post_comment_other
jira_post_comment_other(name, t, issue, srs) ==
    LET comment == build_comment_template(name, comment_template_other, srs,
                                          "https://api.suse.de", "")
    IN Posted(<< Comment(issue, comment) >>, t, NoException)

----------------------------------------------------------------------------
(* ibs_to_jira.py: one run of main(). The work on the build service is     *)
(* taken by its result, the tickets each collected submit request mentions.*)

\* The methods class OscUtils defines.
OscUtilsMethods ==
    { "osc_prepare", "convert_project_to_product", "get_file_from_package",
      "osc_get_web_ui_url", "osc_is_repo_published", "osc_get_containers",
      "osc_get_products", "osc_get_jsc_from_sr", "osc_do_release" }

\* The beta version a project can carry.
MilestoneNames == { "Snapshot-202211-1" }

\* The lists of tickets a submit request can mention.
JscLists == UNION { [1..n -> Tickets] : n \in 0..MaxJscs }

\* The results of main_osc_work(): submit requests 1..n with their mentions.
SrsDicts ==
    UNION { { [i \in 1..n |-> Item(i, jscs[i])] : jscs \in [1..n -> JscLists] } :
            n \in 0..MaxSRs }

\* The issues of the server at the start of a run: an Implementation issue in
\* any status, or an Epic in the status the search for CORRECT asks for.
RunIssues ==
    { Issue(status, "Implementation", << >>) : status \in Statuses }
        \cup { Issue("IBS Integration", "Epic", << >>) }

IbsToJiraInit ==
    /\ CliIdle
    /\ RestIdle
    /\ tracker \in [Tickets -> RunIssues]
    /\ comments = << >>
    /\ transitioned = << >>
    /\ jira_log = << >>
    /\ call = NoCall
    /\ ibs_pc = "osc"
    /\ is_milestone \in BOOLEAN
    /\ dict_with_srs = << >>
    /\ dict_with_jscs = << >>
    /\ milestone_name = ""
    /\ jira_work = PyNone
    /\ issues_by_category = << >>
    /\ comment_idx = 1
    /\ ibs_exception = NoException

\* An uncaught exception leaves main().
IbsCrash(name) ==
    /\ ibs_pc' = "crashed"
    /\ ibs_exception' = name

\* dict_with_srs = main_osc_work(obs_url, osc_config, obs_project)
MainOscWork ==
    /\ ibs_pc = "osc"
    /\ dict_with_srs' \in SrsDicts
    /\ ibs_pc' = "transform"
    /\ UNCHANGED << is_milestone, dict_with_jscs, milestone_name, jira_work,
                    issues_by_category, comment_idx, ibs_exception >>
    /\ UNCHANGED << cli_vars, jira_vars >>
    /\ UNCHANGED rest_vars

\* dict_with_jscs = transform_srs_per_jsc_to_jsc_per_sr(dict_with_srs)
Transform ==
    /\ ibs_pc = "transform"
    /\ dict_with_jscs' = transform_srs_per_jsc_to_jsc_per_sr(dict_with_srs)
    /\ ibs_pc' = IF is_milestone THEN "milestone" ELSE "jira"
    /\ UNCHANGED << is_milestone, dict_with_srs, milestone_name, jira_work,
                    issues_by_category, comment_idx, ibs_exception >>
    /\ UNCHANGED << cli_vars, jira_vars >>
    /\ UNCHANGED rest_vars

\* 'if is_milestone': OscUtils(obs_url).osc_retrieve_betaversion(obs_project),
\* an AttributeError when the class has no such method.
RetrieveBetaversion ==
    /\ ibs_pc = "milestone"
    /\ IF "osc_retrieve_betaversion" \in OscUtilsMethods
       THEN /\ milestone_name' \in MilestoneNames
            /\ ibs_pc' = "jira"
            /\ UNCHANGED ibs_exception
       ELSE /\ IbsCrash("AttributeError")
            /\ UNCHANGED milestone_name
    /\ UNCHANGED << is_milestone, dict_with_srs, dict_with_jscs, jira_work,
                    issues_by_category, comment_idx >>
    /\ UNCHANGED << cli_vars, jira_vars >>
    /\ UNCHANGED rest_vars

\* main_jira_work(): jira_work = JiraWork(..., milestone_name)
MainJiraWork ==
    /\ ibs_pc = "jira"
    /\ jira_work' = [t |-> "JiraWork", v |-> milestone_name]
    /\ ibs_pc' = "search_correct"
    /\ UNCHANGED << is_milestone, dict_with_srs, dict_with_jscs, milestone_name,
                    issues_by_category, comment_idx, ibs_exception >>
    /\ UNCHANGED << cli_vars, jira_vars >>
    /\ UNCHANGED rest_vars

\* IssueState.CORRECT: jira_work.jira_search_correct(list(dict_with_jscs.keys()))
SearchCorrect ==
    /\ ibs_pc = "search_correct"
    /\ issues_by_category' =
          Put(issues_by_category, "CORRECT",
              jira_search_correct(tracker, DictKeys(dict_with_jscs)))
    /\ ibs_pc' = "search_incorrect"
    /\ UNCHANGED << is_milestone, dict_with_srs, dict_with_jscs, milestone_name,
                    jira_work, comment_idx, ibs_exception >>
    /\ UNCHANGED << cli_vars, jira_vars >>
    /\ UNCHANGED rest_vars

\* IssueState.INCORRECT: jira_work.jira_search_incorrect(...)
SearchIncorrect ==
    /\ ibs_pc = "search_incorrect"
    /\ issues_by_category' =
          Put(issues_by_category, "INCORRECT",
              jira_search_incorrect(tracker, DictKeys(dict_with_jscs)))
    /\ ibs_pc' = "search_development"
    /\ UNCHANGED << is_milestone, dict_with_srs, dict_with_jscs, milestone_name,
                    jira_work, comment_idx, ibs_exception >>
    /\ UNCHANGED << cli_vars, jira_vars >>
    /\ UNCHANGED rest_vars

\* IssueState.DEVELOPMENT: jira_work.jira_search_development(...)
SearchDevelopment ==
    /\ ibs_pc = "search_development"
    /\ issues_by_category' =
          Put(issues_by_category, "DEVELOPMENT",
              jira_search_development(tracker, DictKeys(dict_with_jscs)))
    /\ ibs_pc' = "search_other"
    /\ UNCHANGED << is_milestone, dict_with_srs, dict_with_jscs, milestone_name,
                    jira_work, comment_idx, ibs_exception >>
    /\ UNCHANGED << cli_vars, jira_vars >>
    /\ UNCHANGED rest_vars

\* sum(len(value) for value in d.values())
RECURSIVE SumOfLengths(_)
SumOfLengths(lists) ==
    IF lists = << >> THEN 0 ELSE Len(Head(lists)) + SumOfLengths(Tail(lists))

\* IssueState.OTHER: jira_work.jira_search_other(...), then the warning of the
\* duplicate detection.
SearchOther ==
    /\ ibs_pc = "search_other"
    /\ LET other == jira_search_other(issues_by_category, DictKeys(dict_with_jscs))
           all == Put(issues_by_category, "OTHER", other.v)
       IN IF other.t = "raise"
          THEN /\ IbsCrash(other.v)
               /\ UNCHANGED << issues_by_category, jira_log >>
          ELSE /\ issues_by_category' = all
               /\ jira_log' =
                     IF SumOfLengths(DictValues(all)) # Len(dict_with_jscs)
                     THEN Append(jira_log, << "warning", "issues not found", "" >>)
                     ELSE jira_log
               /\ ibs_pc' = "comment"
               /\ UNCHANGED ibs_exception
    /\ UNCHANGED << is_milestone, dict_with_srs, dict_with_jscs, milestone_name,
                    jira_work, comment_idx >>
    /\ UNCHANGED << tracker, comments, transitioned, call >>
    /\ UNCHANGED cli_vars
    /\ UNCHANGED rest_vars

\* The iterations of 'for category, issues in issues_by_category.items():
\* for issue in issues', as pairs of category and issue.
RECURSIVE CommentLoop(_)
CommentLoop(by_category) ==
    IF by_category = << >> THEN << >>
    ELSE [i \in 1..Len(Head(by_category).v) |->
             << Head(by_category).k, Head(by_category).v[i] >>]
         \o CommentLoop(Tail(by_category))

\* A comment loop that moves no ticket on.
no_transition(t, jsc) == [tracker |-> t, transitioned |-> << >>, jira_log |-> << >>]

\* One iteration of the comment loop.
PostComment ==
    /\ ibs_pc = "comment"
    /\ comment_idx <= Len(CommentLoop(issues_by_category))
    /\ LET category == CommentLoop(issues_by_category)[comment_idx][1]
           issue == CommentLoop(issues_by_category)[comment_idx][2]
           srs == Get(dict_with_jscs, issue)
           posted ==
               CASE category = "CORRECT" ->
                        jira_post_comment_correct(jira_work.v, tracker, issue, srs)
                 [] category = "INCORRECT" ->
                        jira_post_comment_incorrect(jira_work.v, tracker, issue, srs)
                 [] category = "DEVELOPMENT" ->
                        jira_post_comment_development(jira_work.v, tracker, issue, srs)
                 [] category = "OTHER" ->
                        jira_post_comment_other(jira_work.v, tracker, issue, srs)
           moved == IF category = "CORRECT"
                    THEN jira_transition_tickets(posted.tracker, issue)
                    ELSE no_transition(posted.tracker, issue)
       IN /\ comments' = comments \o posted.comments
          /\ tracker' = moved.tracker
          /\ transitioned' = transitioned \o moved.transitioned
          /\ jira_log' = jira_log \o moved.jira_log
          /\ IF posted.raised # NoException
             THEN /\ IbsCrash(posted.raised)
                  /\ UNCHANGED comment_idx
             ELSE /\ comment_idx' = comment_idx + 1
                  /\ UNCHANGED << ibs_pc, ibs_exception >>
    /\ UNCHANGED << is_milestone, dict_with_srs, dict_with_jscs, milestone_name,
                    jira_work, issues_by_category, call >>
    /\ UNCHANGED cli_vars
    /\ UNCHANGED rest_vars

\* The comment loop is over: main_jira_work() and main() return.
MainReturns ==
    /\ ibs_pc = "comment"
    /\ comment_idx > Len(CommentLoop(issues_by_category))
    /\ ibs_pc' = "done"
    /\ UNCHANGED << is_milestone, dict_with_srs, dict_with_jscs, milestone_name,
                    jira_work, issues_by_category, comment_idx, ibs_exception >>
    /\ UNCHANGED << cli_vars, jira_vars >>
    /\ UNCHANGED rest_vars

IbsToJiraNext ==
    \/ MainOscWork
    \/ Transform
    \/ RetrieveBetaversion
    \/ MainJiraWork
    \/ SearchCorrect
    \/ SearchIncorrect
    \/ SearchDevelopment
    \/ SearchOther
    \/ PostComment
    \/ MainReturns

SpecIbsToJira == IbsToJiraInit /\ [][IbsToJiraNext]_vars

IbsTerminated == ibs_pc \in {"done", "crashed"}

----------------------------------------------------------------------------
(* Properties of a run of ibs_to_jira. *)

\* The values a dict holds under a key, none when the key is missing.
Mentions(d, key) == IF HasKey(d, key) THEN RangeOf(Get(d, key)) ELSE {}

\* The tickets the collected submit requests mention.
Referenced == { j \in Tickets : \E s \in 1..MaxSRs : j \in Mentions(dict_with_srs, s) }

Transformed == ibs_pc \notin {"osc", "transform"}

\* C19: transform_srs_per_jsc_to_jsc_per_sr inverts the relation: submit
\* request s is in result[j] exactly when j is in input[s]; the keys of the
\* result are the tickets of the input lists, each once, and no key maps to
\* an empty list.
C19_TransformInverts ==
    Transformed =>
        /\ \A s \in 1..MaxSRs, j \in Tickets :
              s \in Mentions(dict_with_jscs, j) <=> j \in Mentions(dict_with_srs, s)
        /\ RangeOf(DictKeys(dict_with_jscs)) = Referenced
        /\ Len(dict_with_jscs) = Cardinality(Referenced)
        /\ \A i \in 1..Len(dict_with_jscs) : dict_with_jscs[i].v # << >>

\* A ticket mentioned by two submit requests, one of which mentions two tickets.
C19_Witness ==
    /\ Transformed
    /\ \E j \in Tickets : Cardinality(Mentions(dict_with_jscs, j)) = 2
    /\ \E s \in 1..MaxSRs : Cardinality(Mentions(dict_with_srs, s)) = 2

\* The ticket is an Implementation issue in status "IBS Integration".
CorrectlyPlaced(t, j) ==
    t[j].issuetype = "Implementation" /\ t[j].status = "IBS Integration"

\* The comment for correctly placed issues.
CorrectComment(j) ==
    Comment(j, build_comment_template(jira_work.v, comment_template_correct,
                                      Get(dict_with_jscs, j), "https://api.suse.de", ""))

\* C16: in a run of ibs_to_jira every referenced ticket is commented; a
\* ticket of type Implementation in status "IBS Integration" gets the comment
\* for correctly placed issues and is then moved on with the transition
\* "Integrated", a ticket in any other status is commented and not moved.
C16_CorrectCommentedAndIntegrated ==
    /\ [](ibs_pc = "done" =>
            \A j \in Referenced : \E i \in 1..Len(comments) : comments[i].issue = j)
    /\ [][ Len(comments') > Len(comments) =>
             LET j == comments'[Len(comments')].issue
             IN IF CorrectlyPlaced(tracker, j)
                THEN /\ comments' = Append(comments, CorrectComment(j))
                     /\ transitioned' = Append(transitioned, << j, "31" >>)
                     /\ tracker'[j].status = "QE Open"
                ELSE /\ Len(comments') = Len(comments) + 1
                     /\ transitioned' = transitioned
                     /\ tracker'[j].status = tracker[j].status
         ]_vars

\* The Jira phase: main_jira_work() has built its JiraWork object.
JiraPhaseReached == jira_work.t = "JiraWork"

\* C20: with the milestone flag the milestone name comes from
\* osc_retrieve_betaversion and every comment of the run holds " (<name>)"
\* directly after the build text, without the flag no comment holds a
\* milestone text; with and without the flag the run reaches the Jira phase.
C20_MilestoneTextIffFlag ==
    /\ IbsTerminated => JiraPhaseReached
    /\ JiraPhaseReached /\ is_milestone => milestone_name \in MilestoneNames
    /\ \A i \in 1..Len(comments) :
          /\ comments[i].body[1] = Merged
          /\ comments[i].body[2] = ""
          /\ comments[i].body[3] =
                IF is_milestone THEN " (" \o milestone_name \o ")" ELSE ""

----------------------------------------------------------------------------
(* utils/osc.py: the build service. A project name is the sequence of its  *)
(* parts between ":" and a package name the sequence of its parts between  *)
(* "-", so that the splits and the regular expressions can be computed.    *)

\* Most polls of the build result one release makes.
MaxPolls == 6

\* "SUSE:SLE-15-SP5:GA"
GaProject == << << "SUSE" >>, << "SLE", "15", "SP5" >>, << "GA" >> >>

\* f"{project}:TEST", f"{project}:GA:PUBLISH"
WithSuffix(project, suffix) == project \o [i \in 1..Len(suffix) |-> << suffix[i] >>]

\* OscUtils.convert_project_to_product: "SLES<major>-SP<n>"
convert_project_to_product(project) ==
    LET product_version == project[Len(project) - 1]
    IN << "SLES" \o product_version[2], product_version[3] >>

\* container_regex.match: ^(cdi|virt)-.*-container
IsContainer(package_name) ==
    /\ Len(package_name) >= 3
    /\ package_name[1] \in {"cdi", "virt"}
    /\ \E i \in 3..Len(package_name) : package_name[i] = "container"

\* products_regex.match and '"release" not in package_name'
IsProduct(package_name, project) ==
    /\ IsPrefix(convert_project_to_product(project), package_name)
    /\ "release" \notin RangeOf(package_name)

\* OscUtils.osc_get_containers
osc_get_containers(packages) == SelectSeq(packages, IsContainer)

\* OscUtils.osc_get_products
osc_get_products(packages, project) ==
    LET matches(package_name) == IsProduct(package_name, project)
    IN SelectSeq(packages, matches)

\* A node of the result list of a build result.
ResultNode(project, code, state) == [project |-> project, code |-> code, state |-> state]

\* all() taken for any().
RECURSIVE any_published(_)
any_published(my_nodes) ==
    IF my_nodes = << >> THEN FALSE
    ELSE (Head(my_nodes).code = "published" /\ Head(my_nodes).state = "published")
         \/ any_published(Tail(my_nodes))

\* all(node.get("code") == "published" and node.get("state") == "published" ...)
RECURSIVE all_published(_)
all_published(my_nodes) ==
    IF my_nodes = << >> THEN TRUE
    ELSE /\ Head(my_nodes).code = "published"
         /\ Head(my_nodes).state = "published"
         /\ all_published(Tail(my_nodes))

\* OscUtils.osc_is_repo_published on the result list the server sent.
osc_is_repo_published(project, result_list) ==
    LET selected(node) == node.project = project
    IN all_published(SelectSeq(result_list, selected))

\* A release request: the URL osc_do_release posts.
Release(project, package, repo, target_project, target_repository) ==
    [project |-> project, package |-> package, repo |-> repo,
     target_project |-> target_project, target_repository |-> target_repository]

NoPart == << >>

\* list.insert(0, x) taken for list.append(x).
InsertLast(list, x) == Append(list, x)

\* list.insert(0, x)
InsertFirst(list, x) == << x >> \o list

\* The osc_do_release calls of release_repo_to_test, in call order.
release_repo_to_test_requests(project, packages) ==
    LET test == WithSuffix(project, << "TEST" >>)
        containers == osc_get_containers(packages)
        products == InsertFirst(InsertFirst(osc_get_products(packages, project),
                                            << "000product" >>),
                                << "kiwi", "templates", "Minimal" >>)
    IN [i \in 1..Len(containers) |->
           Release(project, containers[i], "containerfile", test, "containers")]
       \o << Release(project, << "sles15", "image" >>, "images", test, "containers") >>
       \o [i \in 1..Len(products) |-> Release(project, products[i], "", NoPart, "")]

\* The osc_do_release call of release_repo_to_publish.
release_repo_to_publish_requests(project) ==
    << Release(WithSuffix(project, << "TEST" >>), NoPart, "", NoPart, "") >>

\* The project release_to_common is called with.
release_to_common_project(target, project) ==
    IF target = "TEST" THEN WithSuffix(project, << "TEST" >>)
    ELSE WithSuffix(project, << "GA", "PUBLISH" >>)

----------------------------------------------------------------------------
(* release_to.py and release_to_test.py: one release of a project. The     *)
(* server answers every poll with a build result of its choice.            *)

\* The package lists of the project.
PackageLists ==
    { << >>,
      << << "bash" >>, << "cdi", "apiserver", "container" >>,
         << "SLES15", "SP5", "Azure" >> >>,
      << << "SLES15", "SP5", "EC2" >>, << "virt", "api", "container" >>,
         << "SLES15", "SP5", "release" >>, << "cdi", "apiserver", "container" >>,
         << "SLES15", "SP5", "Azure" >> >>,
      << << "virt", "tools" >>, << "SLES15", "SP4", "Azure" >> >> }

\* The build results a poll of a project can receive.
Responses(project) ==
    { << >>,
      << ResultNode(project, "published", "published") >>,
      << ResultNode(project, "building", "building") >>,
      << ResultNode(project, "published", "publishing") >>,
      << ResultNode(project, "published", "published"),
         ResultNode(project, "failed", "published") >>,
      << ResultNode(<< << "openSUSE" >>, << "Factory" >> >>, "building", "building"),
         ResultNode(project, "published", "published") >> }

\* cli.main(), ibs_to_jira and the Jira server take no part in a release.
ReleaseFrame ==
    UNCHANGED << cli_vars, jira_vars, ibs_vars, conf_vars, img_vars, diff_vars, gfc_vars >>

ReleaseInit ==
    /\ CliIdle
    /\ JiraIdle
    /\ IbsIdle
    /\ GfcIdle
    /\ DiffIdle
    /\ ImgIdle
    /\ ConfIdle
    /\ osc_pc = "release"
    /\ release_target \in {"TEST", "PUBLISH"}
    /\ package_list \in PackageLists
    /\ released = << >>
    /\ response = << >>
    /\ polls = << >>
    /\ osc_stdout = << >>

\* The osc_do_release calls of the release under way.
ReleaseRequests ==
    IF release_target = "TEST"
    THEN release_repo_to_test_requests(GaProject, package_list)
    ELSE release_repo_to_publish_requests(GaProject)

\* One osc_do_release call; after the last one release_to_common is entered.
OscDoRelease ==
    /\ osc_pc = "release"
    /\ released' = Append(released, ReleaseRequests[Len(released) + 1])
    /\ osc_pc' = IF Len(released) + 1 = Len(ReleaseRequests) THEN "containers"
                 ELSE "release"
    /\ UNCHANGED << release_target, package_list, response, polls, osc_stdout >>
    /\ ReleaseFrame

Poll(project, repository, published) ==
    [project |-> project, repository |-> repository, published |-> published]

\* One evaluation of 'while not self.osc_is_repo_published(project, repository)'.
PollWhile(repository, position, next_position) ==
    /\ osc_pc = position
    /\ Len(polls) < MaxPolls
    /\ LET project == release_to_common_project(release_target, GaProject)
       IN \E result_list \in Responses(project) :
             LET published == osc_is_repo_published(project, result_list)
             IN /\ response' = result_list
                /\ polls' = Append(polls, Poll(project, repository, published))
                /\ osc_stdout' = IF published THEN osc_stdout
                                 ELSE Append(osc_stdout, << repository, "PENDING" >>)
                /\ osc_pc' = IF published THEN next_position ELSE position
    /\ UNCHANGED << release_target, package_list, released >>
    /\ ReleaseFrame

\* 'if self.osc_is_repo_published(project, repository): print(...)'
PollIf(repository, position, next_position) ==
    /\ osc_pc = position
    /\ Len(polls) < MaxPolls
    /\ LET project == release_to_common_project(release_target, GaProject)
       IN \E result_list \in Responses(project) :
             LET published == osc_is_repo_published(project, result_list)
             IN /\ response' = result_list
                /\ polls' = Append(polls, Poll(project, repository, published))
                /\ osc_stdout' = IF published
                                 THEN Append(osc_stdout, << repository, "PUBLISHED" >>)
                                 ELSE osc_stdout
    /\ osc_pc' = next_position
    /\ UNCHANGED << release_target, package_list, released >>
    /\ ReleaseFrame

WaitContainers == PollWhile("containers", "containers", "containers_if")

ReportContainers == PollIf("containers", "containers_if", "images")

WaitImages == PollWhile("images", "images", "images_if")

ReportImages == PollIf("images", "images_if", "done")

ReleaseNext ==
    \/ OscDoRelease
    \/ WaitContainers
    \/ ReportContainers
    \/ WaitImages
    \/ ReportImages

SpecRelease == ReleaseInit /\ [][ReleaseNext]_vars

----------------------------------------------------------------------------
(* Properties of a release. *)

TestProject == WithSuffix(GaProject, << "TEST" >>)

PublishProject == WithSuffix(GaProject, << "PUBLISH" >>)

\* A poll before position n observed the repository of the project published.
ObservedPublished(project, repository, n) ==
    \E i \in 1..n : polls[i] = Poll(project, repository, TRUE)

\* C21: release_repo_to_publish(P) triggers the release of P:TEST, then
\* blocks until "containers" and "images" of P:PUBLISH are published, and
\* polls no project other than P:PUBLISH.
C21_PublishWaitsForPublishProject ==
    release_target = "PUBLISH" =>
        /\ polls # << >> => released = << Release(TestProject, NoPart, "", NoPart, "") >>
        /\ \A i \in 1..Len(polls) : polls[i].project = PublishProject
        /\ osc_pc = "done" =>
              /\ ObservedPublished(PublishProject, "containers", Len(polls))
              /\ ObservedPublished(PublishProject, "images", Len(polls))

\* The requests the claim lists for a release to TEST, in its order.
TestReleasesInOrder ==
    LET containers == SelectSeq(package_list, IsContainer)
        product(package_name) == IsProduct(package_name, GaProject)
        products == SelectSeq(package_list, product)
    IN [i \in 1..Len(containers) |->
           Release(GaProject, containers[i], "containerfile", TestProject,
                   "containers")]
       \o << Release(GaProject, << "sles15", "image" >>, "images", TestProject,
                     "containers"),
             Release(GaProject, << "kiwi", "templates", "Minimal" >>, "", NoPart, ""),
             Release(GaProject, << "000product" >>, "", NoPart, "") >>
       \o [i \in 1..Len(products) |-> Release(GaProject, products[i], "", NoPart, "")]

\* C22: release_repo_to_test(P) issues the release requests in the order
\* containers, sles15-image, kiwi-templates-Minimal, 000product, products;
\* it polls only after all of them were issued and returns only after
\* "containers" and "images" of P:TEST were observed published.
C22_TestReleasesThenWaits ==
    release_target = "TEST" =>
        /\ IsPrefix(released, TestReleasesInOrder)
        /\ polls # << >> => released = TestReleasesInOrder
        /\ \A i \in 1..Len(polls) : polls[i].project = TestProject
        /\ osc_pc = "done" =>
              /\ ObservedPublished(TestProject, "containers", Len(polls))
              /\ ObservedPublished(TestProject, "images", Len(polls))

\* A finished release to TEST of a project with containers and products that
\* had to wait for a repository.
C22_Witness ==
    /\ release_target = "TEST"
    /\ osc_pc = "done"
    /\ Len(released) > 5
    /\ \E i \in 1..Len(polls) : ~polls[i].published

\* C24: release_to_common never polls "images" before "containers" was
\* observed published, prints one PENDING line for every poll that finds a
\* repository unpublished and returns only after "images" was observed
\* published. (The safety part of the claim.)
C24_PendingForEveryUnpublishedPoll ==
    /\ [](/\ \A i \in 1..Len(polls) :
                polls[i].repository = "images" =>
                    ObservedPublished(polls[i].project, "containers", i)
          /\ osc_pc = "done" =>
                \E i \in 1..Len(polls) :
                    polls[i].repository = "images" /\ polls[i].published)
    /\ [][ Len(polls') > Len(polls) =>
             LET poll == polls'[Len(polls')]
             IN osc_stdout' =
                    IF poll.published THEN osc_stdout'
                    ELSE Append(osc_stdout, << poll.repository, "PENDING" >>)
         ]_vars

\* C26: osc_is_repo_published returns True exactly when every result the
\* server reports for the project has code "published" and state
\* "published"; no result for the project yields True.
C26_PublishedIffAllResultsPublished ==
    polls # << >> =>
        LET poll == polls[Len(polls)]
            reported == { i \in 1..Len(response) : response[i].project = poll.project }
        IN /\ poll.published <=>
                 \A i \in reported : /\ response[i].code = "published"
                                     /\ response[i].state = "published"
           /\ reported = {} => poll.published

\* A poll answered with one published and one unpublished result.
C26_Witness ==
    /\ polls # << >>
    /\ ~polls[Len(polls)].published
    /\ \E i, j \in 1..Len(response) :
          /\ response[i].project = polls[Len(polls)].project
          /\ response[j].project = polls[Len(polls)].project
          /\ response[i].code = "published" /\ response[i].state = "published"
          /\ response[j].code # "published"

-----------------------------------------------------------------------------
(* update_build_status_page: the page cache and the updates of a Confluence
   page. An address is the text of a request URL, kept as the page id behind
   "{server}/content/" and the query string behind the "?"; the JSON of a page
   is kept as its version number. *)

MaxUpdates == 2

PageIds == { "1058603270", "243269754" }

Address(page, query) == [page |-> page, query |-> query]

\* f"{server}/content/{page_id:d}", with "?expand=body.storage" when expand is set
PageUrl(page_id, expand) ==
    Address(page_id, IF expand THEN "expand=body.storage" ELSE "")

\* The three letters "url", which are the address of no page.
LiteralUrl == Address("url", "")

\* addr.startswith(f"{url}?")
StartsWithQuery(addr, url) == addr.page = url.page /\ url.query = "" /\ addr.query # ""

\* del page_cache[addr] for the addresses the condition of free_page_cache selects
RECURSIVE free_page_cache(_, _)
free_page_cache(cache, url) ==
    IF cache = << >> THEN << >>
    ELSE IF Head(cache).k = LiteralUrl \/ StartsWithQuery(Head(cache).k, url)
         THEN free_page_cache(Tail(cache), url)
         ELSE << Head(cache) >> \o free_page_cache(Tail(cache), url)

\* The cache after confluence_get_page_content(server, user, password, page_id,
\* expand); the call returns Get(cache, url) of that cache.
confluence_get_page_content(cache, server_pages, page_id, expand) ==
    LET url == PageUrl(page_id, expand)
    IN IF HasKey(cache, url) THEN cache ELSE Put(cache, url, server_pages[page_id])

PutRequest(page_id, number, status_code) ==
    [page |-> page_id, number |-> number, status_code |-> status_code]

\* The server takes the update of a page whose version number is one above the
\* number it holds and answers any other with a conflict.
put_status(server_pages, page_id, number) ==
    IF number = server_pages[page_id] + 1 THEN 200 ELSE 409

\* raise_for_status() of the last update raised: the program has ended.
HttpError == puts # << >> /\ puts[Len(puts)].status_code # 200

ConfluenceFrame ==
    UNCHANGED << cli_vars, jira_vars, ibs_vars, osc_vars, img_vars, diff_vars, gfc_vars >>

ConfluenceInit ==
    /\ CliIdle
    /\ JiraIdle
    /\ IbsIdle
    /\ GfcIdle
    /\ DiffIdle
    /\ ImgIdle
    /\ OscIdle
    /\ page_cache = << >>
    /\ pages \in [PageIds -> 1..2]
    /\ puts = << >>

\* A caller reads a page: lines 188, 302 and 367.
ConfluenceGetPageContent ==
    /\ ~HttpError
    /\ \E page_id \in PageIds, expand \in BOOLEAN :
          page_cache' = confluence_get_page_content(page_cache, pages, page_id, expand)
    /\ UNCHANGED << pages, puts >>
    /\ ConfluenceFrame

\* confluence_set_page_content(server, user, password, page_id, json_content)
ConfluenceSetPageContent ==
    /\ ~HttpError
    /\ Len(puts) < MaxUpdates
    /\ \E page_id \in PageIds :
          LET cached == confluence_get_page_content(page_cache, pages, page_id, FALSE)
              current_data == Get(cached, PageUrl(page_id, FALSE))
              number == current_data + 1
              status_code == put_status(pages, page_id, number)
          IN /\ page_cache' = free_page_cache(cached, PageUrl(page_id, FALSE))
             /\ puts' = Append(puts, PutRequest(page_id, number, status_code))
             /\ pages' = IF status_code = 200
                         THEN [pages EXCEPT ![page_id] = number]
                         ELSE pages
    /\ ConfluenceFrame

ConfluenceNext == ConfluenceGetPageContent \/ ConfluenceSetPageContent

SpecConfluence == ConfluenceInit /\ [][ConfluenceNext]_vars

\* C23: after confluence_set_page_content for a page the cache holds no entry
\* for an address of that page, neither the plain content address nor one with
\* a query string, and of two updates of a page that follow each other in one
\* process the second sends a version number one above that of the first.
C23_UpdateEvictsThePage ==
    /\ [][puts' # puts =>
            \A i \in 1..Len(page_cache') :
                page_cache'[i].k.page # puts'[Len(puts')].page]_vars
    /\ [](\A i, j \in 1..Len(puts) :
            (i < j /\ puts[i].page = puts[j].page
                /\ \A k \in (i + 1)..(j - 1) : puts[k].page # puts[i].page)
            => puts[j].number = puts[i].number + 1)

-----------------------------------------------------------------------------
(* sle_build.sle_images: the image names of a project, collected by worker
   threads. A binary is the text name + suffix. *)

MaxLookups == 2

\* The image names, in ascending order of their text.
ImageOrder == << "SLES15-SP5-EC2", "SLES15-SP5-JeOS", "SLES15-SP5-Minimal-VM" >>

Binary(name, suffix) == [name |-> name, suffix |-> suffix]

\* 'if binary.endswith(".packages"): result.append(binary[:-9])' for every binary
get_sle_images_single(binaries) ==
    LET packages == SelectSeq(binaries, LAMBDA binary : binary.suffix = ".packages")
    IN [i \in 1..Len(packages) |-> packages[i].name]

\* What core.get_binarylist answers a lookup with.
BinaryLists ==
    { << >>,
      << Binary(ImageOrder[2], ".packages"), Binary(ImageOrder[2], ".raw.xz") >>,
      << Binary(ImageOrder[3], ".packages"), Binary(ImageOrder[1], ".packages") >> }

\* The lookups a get_sle_images_* call submits: one for every flavor or package
\* and repository.
LookupLists == UNION { [1..n -> BinaryLists] : n \in 0..MaxLookups }

RankOf(name) == CHOOSE i \in 1..Len(ImageOrder) : ImageOrder[i] = name

\* A list that is left in the order of its elements.
unsorted(list) == list

RECURSIVE InsertSorted(_, _)
InsertSorted(list, name) ==
    IF list = << >> THEN << name >>
    ELSE IF RankOf(name) < RankOf(Head(list)) THEN << name >> \o list
    ELSE << Head(list) >> \o InsertSorted(Tail(list), name)

\* list.sort()
RECURSIVE sort(_)
sort(list) ==
    IF list = << >> THEN << >> ELSE InsertSorted(sort(Tail(list)), Head(list))

ImagesFrame ==
    UNCHANGED << cli_vars, jira_vars, ibs_vars, osc_vars, conf_vars, diff_vars, gfc_vars >>

ImagesInit ==
    /\ CliIdle
    /\ JiraIdle
    /\ IbsIdle
    /\ GfcIdle
    /\ DiffIdle
    /\ OscIdle
    /\ ConfIdle
    /\ img_pc = "jeos"
    /\ kiwi_template \in {"", "kiwi-templates-Minimal"}
    /\ futures = << >>
    /\ pending = {}
    /\ img_result = << >>
    /\ temp_storage = << >>
    /\ submitted = << >>

\* 'with ThreadPoolExecutor(max_workers=5) as executor': the lookups of a
\* get_sle_images_* call are submitted.
Submit(position, wait_position) ==
    /\ img_pc = position
    /\ \E lookups \in LookupLists :
          /\ futures' = lookups
          /\ pending' = 1..Len(lookups)
          /\ submitted' = submitted \o lookups
    /\ img_result' = << >>
    /\ img_pc' = wait_position
    /\ UNCHANGED << kiwi_template, temp_storage >>
    /\ ImagesFrame

\* 'for future in as_completed(futures): result.extend(future.result())': the
\* next future to complete is any of those that have not been yielded.
AsCompleted ==
    /\ img_pc \in {"jeos_wait", "multibuild_wait", "old_style_wait"}
    /\ \E future \in pending :
          /\ img_result' = img_result \o get_sle_images_single(futures[future])
          /\ pending' = pending \ {future}
    /\ UNCHANGED << img_pc, kiwi_template, futures, temp_storage, submitted >>
    /\ ImagesFrame

\* 'return result' and temp_storage.extend(...) of the caller
Extend(wait_position, next_position) ==
    /\ img_pc = wait_position
    /\ pending = {}
    /\ temp_storage' = temp_storage \o img_result
    /\ img_pc' = next_position
    /\ UNCHANGED << kiwi_template, futures, pending, img_result, submitted >>
    /\ ImagesFrame

\* 'if kiwi_template != "":' is false
SkipJeos ==
    /\ img_pc = "jeos"
    /\ kiwi_template = ""
    /\ img_pc' = "multibuild"
    /\ UNCHANGED << kiwi_template, futures, pending, img_result, temp_storage,
                    submitted >>
    /\ ImagesFrame

get_sle_images_jeos == kiwi_template # "" /\ Submit("jeos", "jeos_wait")

ExtendJeos == Extend("jeos_wait", "multibuild")

get_sle_images_multibuild == Submit("multibuild", "multibuild_wait")

ExtendMultibuild == Extend("multibuild_wait", "old_style")

get_sle_images_old_style == Submit("old_style", "old_style_wait")

ExtendOldStyle == Extend("old_style_wait", "sort")

\* temp_storage.sort(); return temp_storage
SortImages ==
    /\ img_pc = "sort"
    /\ temp_storage' = sort(temp_storage)
    /\ img_pc' = "done"
    /\ UNCHANGED << kiwi_template, futures, pending, img_result, submitted >>
    /\ ImagesFrame

ImagesNext ==
    \/ SkipJeos
    \/ get_sle_images_jeos
    \/ ExtendJeos
    \/ get_sle_images_multibuild
    \/ ExtendMultibuild
    \/ get_sle_images_old_style
    \/ ExtendOldStyle
    \/ AsCompleted
    \/ SortImages

SpecImages == ImagesInit /\ [][ImagesNext]_vars

\* How often a name is in a list.
RECURSIVE Occurrences(_, _)
Occurrences(list, name) ==
    IF list = << >> THEN 0
    ELSE (IF Head(list) = name THEN 1 ELSE 0) + Occurrences(Tail(list), name)

\* The image names of the lookups, in the order of submission.
RECURSIVE NamesOf(_)
NamesOf(lookups) ==
    IF lookups = << >> THEN << >>
    ELSE get_sle_images_single(Head(lookups)) \o NamesOf(Tail(lookups))

Ascending(list) ==
    \A i \in 1..(Len(list) - 1) : RankOf(list[i]) <= RankOf(list[i + 1])

\* C25: whatever the order in which the worker threads complete, the list
\* sle_images returns is ascending and holds every image name as often as the
\* submitted lookups produced it, so it is the same list for every order.
C25_SortedImagesOfAllLookups ==
    img_pc = "done" =>
        /\ Ascending(temp_storage)
        /\ \A i \in 1..Len(ImageOrder) :
              Occurrences(temp_storage, ImageOrder[i])
                  = Occurrences(NamesOf(submitted), ImageOrder[i])

\* sle_images returned after two lookups of one call completed against the
\* order of their submission, with names that were collected out of order.
C25_Witness ==
    /\ img_pc = "done"
    /\ Len(futures) = 2
    /\ img_result # NamesOf(futures)
    /\ ~Ascending(img_result)
    /\ Len(temp_storage) >= 3

-----------------------------------------------------------------------------
(* main_jira_work() for any answers of the server to the three status
   searches: every search is answered with some of the keys it asked for. *)

\* The lists that hold some of the elements of a list, in the order of the list.
Sublists(list) ==
    { SelectSeq(list, LAMBDA x : x \in chosen) : chosen \in SUBSET RangeOf(list) }

ClassifyInit ==
    /\ CliIdle
    /\ RestIdle
    /\ tracker \in [Tickets -> { Issue("IBS Integration", "Implementation", << >>),
                                 Issue("Dev In Progress", "Implementation", << >>) }]
    /\ comments = << >>
    /\ transitioned = << >>
    /\ jira_log = << >>
    /\ call = NoCall
    /\ ibs_pc = "search_correct"
    /\ is_milestone = FALSE
    /\ dict_with_srs \in SrsDicts
    /\ dict_with_jscs = transform_srs_per_jsc_to_jsc_per_sr(dict_with_srs)
    /\ milestone_name = ""
    /\ jira_work = [t |-> "JiraWork", v |-> ""]
    /\ issues_by_category = << >>
    /\ comment_idx = 1
    /\ ibs_exception = NoException

\* issues_by_category[category] = jira_work.jira_search_*(list(dict_with_jscs.keys()))
\* with a search that is answered with some of the keys.
SearchAnswered(category, position, next_position) ==
    /\ ibs_pc = position
    /\ \E found \in Sublists(DictKeys(dict_with_jscs)) :
          issues_by_category' = Put(issues_by_category, category, found)
    /\ ibs_pc' = next_position
    /\ UNCHANGED << is_milestone, dict_with_srs, dict_with_jscs, milestone_name,
                    jira_work, comment_idx, ibs_exception >>
    /\ UNCHANGED << cli_vars, jira_vars >>
    /\ UNCHANGED rest_vars

CorrectAnswered == SearchAnswered("CORRECT", "search_correct", "search_incorrect")

IncorrectAnswered == SearchAnswered("INCORRECT", "search_incorrect", "search_development")

DevelopmentAnswered == SearchAnswered("DEVELOPMENT", "search_development", "search_other")

ClassifyNext ==
    \/ CorrectAnswered
    \/ IncorrectAnswered
    \/ DevelopmentAnswered
    \/ SearchOther
    \/ PostComment
    \/ MainReturns

SpecClassify == ClassifyInit /\ [][ClassifyNext]_vars

\* The categories a key was assigned to, one for each time it is in a list.
CategoriesOf(key) ==
    SelectSeq(CommentLoop(issues_by_category), LAMBDA pair : pair[2] = key)

\* The comments a key received.
CommentsOf(key) == SelectSeq(comments, LAMBDA comment : comment.issue = key)

\* C27: whatever the three status searches are answered with, overlapping
\* answers included, the run does not abort while it classifies, every input
\* key is assigned to exactly one category, no key is commented twice, and at
\* the end of the run every key has received exactly one comment.
C27_EveryKeyInOneCategory ==
    /\ ~(ibs_pc = "crashed" /\ ~HasKey(issues_by_category, "OTHER"))
    /\ \A key \in RangeOf(DictKeys(dict_with_jscs)) :
          /\ HasKey(issues_by_category, "OTHER") => Len(CategoriesOf(key)) = 1
          /\ Len(CommentsOf(key)) <= 1
          /\ ibs_pc = "done" => Len(CommentsOf(key)) = 1

-----------------------------------------------------------------------------
(* jira_post_comment_development for issues with any labels: the comment loop
   of main_jira_work() over issues that are all in DEVELOPMENT. *)

\* The labels an issue may carry before the call, in the order of the server.
LabelLists == Sublists(<< "status:wait_for_status", "SLE-15-SP5", "status:code_merged" >>)

PostDevelopmentInit ==
    /\ CliIdle
    /\ RestIdle
    /\ tracker \in [Tickets -> { Issue("Dev In Progress", "Implementation", labels) :
                                    labels \in LabelLists }]
    /\ comments = << >>
    /\ transitioned = << >>
    /\ jira_log = << >>
    /\ call = NoCall
    /\ ibs_pc = "comment"
    /\ is_milestone = FALSE
    /\ dict_with_srs \in SrsDicts
    /\ dict_with_jscs = transform_srs_per_jsc_to_jsc_per_sr(dict_with_srs)
    /\ milestone_name = ""
    /\ jira_work = [t |-> "JiraWork", v |-> ""]
    /\ issues_by_category =
          << Item("CORRECT", << >>), Item("INCORRECT", << >>),
             Item("DEVELOPMENT", DictKeys(dict_with_jscs)), Item("OTHER", << >>) >>
    /\ comment_idx = 1
    /\ ibs_exception = NoException

PostDevelopmentNext == PostComment \/ MainReturns

SpecPostDevelopment == PostDevelopmentInit /\ [][PostDevelopmentNext]_vars

StatusLabels == { "status:code_merged", "status:wait_for_status" }

\* The labels of a list that are neither of the two status labels.
OtherLabels(labels) == SelectSeq(labels, LAMBDA label : label \notin StatusLabels)

\* C28: a call of jira_post_comment_development(issue, srs) completes without
\* error for every initial label set; afterwards the labels of the issue hold
\* status:code_merged and not status:wait_for_status, and the other labels are
\* the ones the issue had before.
C28_DevelopmentLabels ==
    [][comments' # comments =>
        LET issue == comments'[Len(comments')].issue
        IN /\ ibs_pc' # "crashed"
           /\ "status:code_merged" \in RangeOf(tracker'[issue].labels)
           /\ "status:wait_for_status" \notin RangeOf(tracker'[issue].labels)
           /\ OtherLabels(tracker'[issue].labels) = OtherLabels(tracker[issue].labels)]_vars

-----------------------------------------------------------------------------
(* packagelist_report.calculcate_package_diff. A map is a dict of package ->
   list of groups; the text of a dict key of the report is kept as the list of
   its words: the group names, which "," joins, and " to ". *)

MaxEntries == 2

\* The package names, in ascending order of their text.
PackageOrder == << "bash", "curl", "yast" >>

\* The words of the keys, in ascending order of their text.
WordOrder == << " to ", "dvd", "sdk", "unsorted" >>

\* The non-empty group lists of a package.
GroupLists == { << "dvd" >>, << "sdk" >>, << "dvd", "sdk" >> }

\* The dicts of at most MaxEntries packages.
PackageMaps ==
    UNION { { [i \in 1..n |-> Item(PackageOrder[order[i]], groups[i])] :
                 order \in { o \in [1..n -> 1..Len(PackageOrder)] :
                                \A i, j \in 1..n : i # j => o[i] # o[j] },
                 groups \in [1..n -> GroupLists] } :
            n \in 0..MaxEntries }

\* d.get(key, default)
GetDefault(d, key, default) == IF HasKey(d, key) THEN Get(d, key) ELSE default

\* del d[key] for a key the dict holds
Del(d, key) == SelectSeq(d, LAMBDA item : item.k # key)

\* d.setdefault(key, []); d[key].append(value)
AppendTo(d, key, value) == Put(d, key, Append(GetDefault(d, key, << >>), value))

\* 'for key in keys: if new_file.get(key, []) == old_file[key]: del ...': the
\* two dicts without their common part.
RECURSIVE RemoveCommon(_, _, _)
RemoveCommon(keys, old, new) ==
    IF keys = << >> THEN [old_file |-> old, new_file |-> new]
    ELSE IF GetDefault(new, Head(keys), << >>) = Get(old, Head(keys))
         THEN RemoveCommon(Tail(keys), Del(old, Head(keys)), Del(new, Head(keys)))
         ELSE RemoveCommon(Tail(keys), old, new)

\* The loop that fills added.
RECURSIVE added_packages(_, _, _)
added_packages(added, pkgs, files) ==
    IF pkgs = << >> THEN added
    ELSE IF HasKey(files.old_file, Head(pkgs))
         THEN added_packages(added, Tail(pkgs), files)
         ELSE added_packages(AppendTo(added, Get(files.new_file, Head(pkgs)), Head(pkgs)),
                             Tail(pkgs), files)

\* A loop that files every package of old_file under its old groups.
RECURSIVE removed_unconditionally(_, _, _)
removed_unconditionally(removed, pkgs, files) ==
    IF pkgs = << >> THEN removed
    ELSE removed_unconditionally(
             AppendTo(removed, Get(files.old_file, Head(pkgs)), Head(pkgs)),
             Tail(pkgs), files)

\* The loop that fills removed.
RECURSIVE removed_packages(_, _, _)
removed_packages(removed, pkgs, files) ==
    IF pkgs = << >> THEN removed
    ELSE IF GetDefault(files.new_file, Head(pkgs), << >>) # << >>
         THEN removed_packages(removed, Tail(pkgs), files)
         ELSE removed_packages(
                  AppendTo(removed, Get(files.old_file, Head(pkgs)), Head(pkgs)),
                  Tail(pkgs), files)

\* The loop that fills moved.
RECURSIVE moved_packages(_, _, _)
moved_packages(moved_to, pkgs, files) ==
    IF pkgs = << >> THEN moved_to
    ELSE LET old_groups == Get(files.old_file, Head(pkgs))
             new_groups == GetDefault(files.new_file, Head(pkgs), << >>)
         IN IF new_groups = << >>
            THEN moved_packages(moved_to, Tail(pkgs), files)
            ELSE moved_packages(
                     AppendTo(moved_to, old_groups \o << " to " >> \o new_groups,
                              Head(pkgs)),
                     Tail(pkgs), files)

WordRank(word) == CHOOSE i \in 1..Len(WordOrder) : WordOrder[i] = word

\* The text of key a is before the text of key b.
RECURSIVE KeyBefore(_, _)
KeyBefore(a, b) ==
    IF b = << >> THEN FALSE
    ELSE IF a = << >> THEN TRUE
    ELSE IF Head(a) # Head(b) THEN WordRank(Head(a)) < WordRank(Head(b))
    ELSE KeyBefore(Tail(a), Tail(b))

RECURSIVE InsertItem(_, _)
InsertItem(d, item) ==
    IF d = << >> THEN << item >>
    ELSE IF KeyBefore(item.k, Head(d).k) THEN << item >> \o d
    ELSE << Head(d) >> \o InsertItem(Tail(d), item)

\* The items of a dict in the order of sorted(d.keys())
RECURSIVE SortedItems(_)
SortedItems(d) ==
    IF d = << >> THEN << >> ELSE InsertItem(SortedItems(Tail(d)), Head(d))

Section(title, item) == [title |-> title, key |-> item.k, packages |-> item.v]

Sections(title, d) ==
    [i \in 1..Len(d) |-> Section(title, SortedItems(d)[i])]

\* generate_package_diff_report: the sections of the report, each with its
\* title, its key and the packages of its paragraph.
generate_package_diff_report(added, moved_to, removed) ==
    [t |-> "report",
     v |-> Sections("Remove from", removed) \o Sections("Move from", moved_to)
               \o Sections("Add to", added)]

\* The return value of calculcate_package_diff(old_file, new_file) and the two
\* dicts as the call leaves them.
calculcate_package_diff(old, new) ==
    LET files == RemoveCommon(DictKeys(old), old, new)
        added == added_packages(<< >>, DictKeys(files.new_file), files)
        removed == removed_packages(<< >>, DictKeys(files.old_file), files)
        moved_to == moved_packages(<< >>, DictKeys(files.old_file), files)
    IN [old_file |-> files.old_file,
        new_file |-> files.new_file,
        report |-> IF files.old_file = << >> /\ files.new_file = << >>
                   THEN PyNone
                   ELSE generate_package_diff_report(added, moved_to, removed)]

NotCalled == [t |-> "not called", v |-> << >>]

PackageDiffFrame ==
    UNCHANGED << cli_vars, jira_vars, ibs_vars, osc_vars, conf_vars, img_vars, gfc_vars >>

PackageDiffInit ==
    /\ CliIdle
    /\ JiraIdle
    /\ IbsIdle
    /\ GfcIdle
    /\ OscIdle
    /\ ConfIdle
    /\ ImgIdle
    /\ old_file \in PackageMaps
    /\ new_file \in PackageMaps
    /\ report = NotCalled

\* report = calculcate_package_diff(from_summary, to_summary)
CalculatePackageDiff ==
    /\ report = NotCalled
    /\ old_file' = calculcate_package_diff(old_file, new_file).old_file
    /\ new_file' = calculcate_package_diff(old_file, new_file).new_file
    /\ report' = calculcate_package_diff(old_file, new_file).report
    /\ PackageDiffFrame

PackageDiffNext == CalculatePackageDiff

SpecPackageDiff == PackageDiffInit /\ [][PackageDiffNext]_vars

\* The two dicts map the same packages to the same group lists.
SameMaps(old, new) ==
    /\ RangeOf(DictKeys(old)) = RangeOf(DictKeys(new))
    /\ \A pkg \in RangeOf(DictKeys(old)) : Get(old, pkg) = Get(new, pkg)

\* How often the sections with a title name a package.
RECURSIVE TimesReported(_, _, _)
TimesReported(sections, titles, pkg) ==
    IF sections = << >> THEN 0
    ELSE (IF Head(sections).title \in titles
          THEN Len(SelectSeq(Head(sections).packages, LAMBDA p : p = pkg))
          ELSE 0)
         + TimesReported(Tail(sections), titles, pkg)

Titles == { "Remove from", "Move from", "Add to" }

\* The title under which a package with differing group lists belongs.
TitleOf(old, new, pkg) ==
    IF ~HasKey(old, pkg) THEN "Add to"
    ELSE IF ~HasKey(new, pkg) THEN "Remove from"
    ELSE "Move from"

\* C29: for two maps whose group lists are all non-empty the call returns None
\* exactly when the maps are equal; otherwise every package whose group list
\* differs is reported once, under added when only new has it, under removed
\* when only old has it and under moved when both have it, and a package with
\* identical group lists is not reported.
C29_DiffReportsEveryChangeOnce ==
    [][report' # report =>
        /\ (report' = PyNone) <=> SameMaps(old_file, new_file)
        /\ report' # PyNone =>
              \A i \in 1..Len(PackageOrder) :
                  LET pkg == PackageOrder[i]
                      differs == GetDefault(old_file, pkg, << >>)
                                     # GetDefault(new_file, pkg, << >>)
                  IN IF differs
                     THEN /\ TimesReported(report'.v, Titles, pkg) = 1
                          /\ TimesReported(report'.v,
                                           {TitleOf(old_file, new_file, pkg)}, pkg) = 1
                     ELSE TimesReported(report'.v, Titles, pkg) = 0]_vars

\* A report that names a removed, a moved and an added package was returned.
C29_Witness ==
    /\ report.t = "report"
    /\ Len(report.v) = 3
    /\ \A title \in Titles : \E i \in 1..3 : report.v[i].title = title

-----------------------------------------------------------------------------
(* packagelist_report.get_file_content. The standard output of a download is
   kept parsed: the lines "pkg:group" of summary-staging.txt as pairs, a YAML
   file as the mapping of module -> packages it describes, as a document
   without content, or as a text that is not YAML. A command is kept as the
   name of the file it asks for. *)

TxtFile == "summary-staging.txt"

yaml_files == << "reference-summary.yml", "reference-unsorted.yml", "unneeded.yml" >>

Output(returncode, out) == [returncode |-> returncode, stdout |-> out]

Line(pkg, group) == << pkg, group >>

\* yaml.safe_load of a document without content is None.
EmptyDocument == [t |-> "none", v |-> << >>]

\* yaml.safe_load raises YAMLError.
InvalidYaml == [t |-> "YAMLError", v |-> << >>]

Mapping(items) == [t |-> "dict", v |-> items]

TxtOutputs ==
    { Output(1, << >>), Output(0, << >>),
      Output(0, << Line("curl", "sdk") >>),
      Output(0, << Line("curl", "sdk"), Line("bash", "dvd"), Line("curl", "dvd") >>) }

YamlOutputs ==
    { Output(1, EmptyDocument), Output(0, EmptyDocument), Output(0, InvalidYaml),
      Output(0, Mapping(<< >>)),
      Output(0, Mapping(<< Item("sdk", << "yast", "bash" >>), Item("dvd", << >>) >>)) }

\* convert_txt_to_dict
RECURSIVE convert_txt_to_dict(_, _)
convert_txt_to_dict(ret_dict, lines) ==
    IF lines = << >> THEN ret_dict
    ELSE convert_txt_to_dict(AppendTo(ret_dict, Head(lines)[1], Head(lines)[2]),
                             Tail(lines))

\* 'for package in packages: ret[package] = ["unsorted"] or [module]'
RECURSIVE PutPackages(_, _, _)
PutPackages(ret_dict, packages, group) ==
    IF packages = << >> THEN ret_dict
    ELSE PutPackages(Put(ret_dict, Head(packages), << group >>), Tail(packages), group)

\* 'for module, packages in parsed_yaml.items()'
RECURSIVE PutModules(_, _, _)
PutModules(ret_dict, items, unsorted_flag) ==
    IF items = << >> THEN ret_dict
    ELSE PutModules(PutPackages(ret_dict, Head(items).v,
                                IF unsorted_flag THEN "unsorted" ELSE Head(items).k),
                    Tail(items), unsorted_flag)

\* convert_yml_to_dict: a YAMLError is logged, None.items() is an AttributeError
\* that nothing catches.
convert_yml_to_dict(file_content, unsorted_flag) ==
    CASE file_content.t = "YAMLError" -> Mapping(<< >>)
      [] file_content.t = "none" -> Raised("AttributeError")
      [] file_content.t = "dict" ->
             Mapping(PutModules(<< >>, file_content.v, unsorted_flag))

\* {**ret, **content}
RECURSIVE MergeDicts(_, _)
MergeDicts(ret_dict, content) ==
    IF content = << >> THEN ret_dict
    ELSE MergeDicts(Put(ret_dict, Head(content).k, Head(content).v), Tail(content))

\* What a get_*_file call did: the commands it ran and the value it returned or
\* the exception it raised.
Got(commands, value) == [downloaded |-> commands, ret |-> value]

\* get_txt_file
get_txt_file(files) ==
    IF files[TxtFile].returncode # 0 THEN Got(<< TxtFile >>, PyNone)
    ELSE Got(<< TxtFile >>, Mapping(convert_txt_to_dict(<< >>, files[TxtFile].stdout)))

\* get_yml_files, from the file with the index on
RECURSIVE GetYmlFilesFrom(_, _, _)
GetYmlFilesFrom(got, index, files) ==
    IF index > Len(yaml_files) THEN got
    ELSE LET file == yaml_files[index]
             commands == Append(got.downloaded, file)
             content == convert_yml_to_dict(files[file].stdout, file # yaml_files[1])
         IN IF files[file].returncode # 0 THEN Got(commands, PyNone)
            ELSE IF content.t = "raise" THEN Got(commands, content)
            ELSE GetYmlFilesFrom(Got(commands, Mapping(MergeDicts(got.ret.v, content.v))),
                                 index + 1, files)

get_yml_files(files) == GetYmlFilesFrom(Got(<< >>, Mapping(<< >>)), 1, files)

\* A test that takes only None for false.
IsNone(value) == value = PyNone

\* 'not ret' for None or a dict
Falsy(value) == value = PyNone \/ (value.t = "dict" /\ value.v = << >>)

PackageRank(pkg) == CHOOSE i \in 1..Len(PackageOrder) : PackageOrder[i] = pkg

\* The text of line a is before the text of line b.
LineBefore(a, b) ==
    \/ PackageRank(a[1]) < PackageRank(b[1])
    \/ a[1] = b[1] /\ WordRank(a[2]) < WordRank(b[2])

RECURSIVE InsertLine(_, _)
InsertLine(lines, line) ==
    IF lines = << >> THEN << line >>
    ELSE IF LineBefore(line, Head(lines)) THEN << line >> \o lines
    ELSE << Head(lines) >> \o InsertLine(Tail(lines), line)

\* The lines f"{pkg}:{group}" of a dict, sorted
RECURSIVE SortedLines(_)
SortedLines(content) ==
    IF content = << >> THEN << >>
    ELSE LET pkg == Head(content).k
             groups == Head(content).v
             RECURSIVE InsertGroups(_, _)
             InsertGroups(lines, index) ==
                 IF index > Len(groups) THEN lines
                 ELSE InsertGroups(InsertLine(lines, Line(pkg, groups[index])), index + 1)
         IN InsertGroups(SortedLines(Tail(content)), 1)

NoFile == [file |-> "", lines |-> << >>]

\* write_summary_dict(file, content): the file on disk
write_summary_dict(file, content) == [file |-> file, lines |-> SortedLines(content)]

FileContentFrame ==
    UNCHANGED << cli_vars, jira_vars, ibs_vars, osc_vars, conf_vars, img_vars, diff_vars >>

FileContentInit ==
    /\ CliIdle
    /\ JiraIdle
    /\ IbsIdle
    /\ OscIdle
    /\ ConfIdle
    /\ ImgIdle
    /\ DiffIdle
    /\ gfc_pc = "txt"
    /\ remote \in { [file \in {TxtFile} \cup RangeOf(yaml_files) |->
                        IF file = TxtFile THEN txt ELSE yml[file]] :
                    txt \in TxtOutputs, yml \in [RangeOf(yaml_files) -> YamlOutputs] }
    /\ downloaded = << >>
    /\ ret = PyNone
    /\ summary_file = NoFile
    /\ gfc_exit = NoExit

\* ret = get_txt_file(cmd, revision)
GetTxtFile ==
    /\ gfc_pc = "txt"
    /\ downloaded' = downloaded \o get_txt_file(remote).downloaded
    /\ ret' = get_txt_file(remote).ret
    /\ gfc_pc' = IF Falsy(ret') THEN "yml" ELSE "write"
    /\ UNCHANGED << remote, summary_file, gfc_exit >>
    /\ FileContentFrame

\* 'if not ret: ret = get_yml_files(cmd, revision)', then 'if not ret:
\* sys.exit(1)'; an exception that nothing catches ends the process with the
\* exit status 1 as well.
GetYmlFiles ==
    /\ gfc_pc = "yml"
    /\ downloaded' = downloaded \o get_yml_files(remote).downloaded
    /\ ret' = get_yml_files(remote).ret
    /\ CASE ret'.t = "raise" -> gfc_pc' = "crashed" /\ gfc_exit' = 1
         [] ret'.t # "raise" /\ Falsy(ret') -> gfc_pc' = "exited" /\ gfc_exit' = 1
         [] OTHER -> gfc_pc' = "write" /\ UNCHANGED gfc_exit
    /\ UNCHANGED << remote, summary_file >>
    /\ FileContentFrame

\* write_summary_dict(project, ret); return ret
WriteSummaryDict ==
    /\ gfc_pc = "write"
    /\ summary_file' = write_summary_dict("SUSE:SLE-15-SP5:GA", ret.v)
    /\ gfc_pc' = "done"
    /\ UNCHANGED << remote, downloaded, ret, gfc_exit >>
    /\ FileContentFrame

FileContentNext == GetTxtFile \/ GetYmlFiles \/ WriteSummaryDict

SpecFileContent == FileContentInit /\ [][FileContentNext]_vars

\* The download of summary-staging.txt succeeds with at least one entry.
TxtUsable == remote[TxtFile].returncode = 0 /\ remote[TxtFile].stdout # << >>

GfcTerminated == gfc_pc \in {"done", "exited", "crashed"}

\* C30: when the download of summary-staging.txt succeeds with at least one
\* entry, its content is the result and no YAML file is asked for; otherwise
\* the YAML files are asked for, and when one of their downloads fails or
\* they yield no package the process ends with the exit code 1 and no summary
\* file; a summary file is written only for a non-empty package map.
C30_TxtFirstThenYaml ==
    /\ (TxtUsable /\ gfc_pc # "txt") =>
          /\ downloaded = << TxtFile >>
          /\ ret = Mapping(convert_txt_to_dict(<< >>, remote[TxtFile].stdout))
          /\ gfc_pc \in {"write", "done"}
    /\ (~TxtUsable /\ GfcTerminated) =>
          /\ Len(downloaded) >= 2
          /\ \A i \in 2..Len(downloaded) : downloaded[i] = yaml_files[i - 1]
          /\ ((\E i \in 1..Len(yaml_files) : remote[yaml_files[i]].returncode # 0)
                \/ ret = Mapping(<< >>))
             => (gfc_exit = 1 /\ summary_file = NoFile)
    /\ summary_file # NoFile => (ret.t = "dict" /\ ret.v # << >>)
    /\ gfc_pc = "done" => summary_file # NoFile

\* The text file was downloaded without an entry, the three YAML files were
\* read and the summary file of their packages was written.
C30_Witness ==
    /\ gfc_pc = "done"
    /\ ~TxtUsable
    /\ remote[TxtFile].returncode = 0
    /\ Len(downloaded) = 4
    /\ Len(summary_file.lines) >= 2

====
